---- MODULE Spec2Model ----
(***************************************************************************)
(* Scheduled synchronisation and credential lifecycle of the SEO platform: *)
(*   server/services/googleSearchConsole.ts  (token manager, ranking sync) *)
(*   server/services/pageSpeedInsights.ts    (page-performance sync)       *)
(*   server/services/scheduler.ts            (SchedulerService)            *)
(* Every async function is a process whose steps are the code between two  *)
(* awaits that touch shared state; the outcome of every external call      *)
(* (storage, OAuth endpoint, measurement APIs) is an input of the step.    *)
(***************************************************************************)
EXTENDS Integers, Sequences, FiniteSets, Bags, TLC

VARIABLES
    now,              \* wall clock in ms (new Date() / Date.now())
    users,            \* users table: the Credential columns of every user id
    tcall,            \* getValidAccessToken calls in flight
    trackedDomains,   \* tracked_domains table, in id order
    pageSpeedHistory, \* pagespeed_history table: a bag of rows
    domainHistory,    \* domain_history table: a bag of rows
    keywordHistory,   \* keyword_history table: a bag of rows
    trackedKeywords,  \* tracked_keywords table, in id order
    autoInc,          \* the last id each of these two tables has given out
    gsync,            \* the syncSearchConsoleData call
    psync,            \* the syncPageSpeedData call
    isRunning,        \* SchedulerService.isRunning
    intervalId,       \* SchedulerService.intervalId (0 is null)
    intervals,        \* ids of the setInterval timers not cleared
    timeouts,         \* number of setTimeout timers not yet fired
    timerSeq,         \* number of setInterval timers created so far
    nStart,           \* number of start() calls so far
    runs,             \* runDailyUpdate invocations
    score,            \* the calculateAIReadabilityScore call: metrics, result
    xchg,             \* the last exchangeCode call: inputs, result
    status,           \* the last getStatus call: what it saw and returned
    csv,              \* the CSV export call: operation, input, output
    ups,              \* the keyword loops of concurrent syncSearchConsoleData calls
    batch,            \* one batch, one awaited call at a time: what is outstanding
    manual,           \* the manualUpdate call and what it returned
    router            \* router calls: how many so far, the analyze call

tokenVars == <<users, tcall>>
storeVars == <<trackedDomains, pageSpeedHistory, domainHistory, keywordHistory,
               trackedKeywords, autoInc>>
syncVars == <<gsync, psync>>
schedVars == <<isRunning, intervalId, intervals, timeouts, timerSeq, nStart, runs>>
auxVars == <<score, xchg, status, csv, ups, batch, manual, router>>
vars == <<now, users, tcall, trackedDomains, pageSpeedHistory, domainHistory,
          keywordHistory, trackedKeywords, autoInc, gsync, psync,
          isRunning, intervalId, intervals, timeouts, timerSeq, nStart, runs,
          score, xchg, status, csv, ups, batch, manual, router>>

----------------------------------------------------------------------------
(* Bounds of the model *)
MaxUsers == 1
MaxTokCalls == 1
MaxTime == 1000
TickMs == 500

UserIds == 1..MaxUsers
TokCalls == 1..MaxTokCalls

----------------------------------------------------------------------------
(* Values *)

\* SQL NULL of a nullable text column
Null == "<null>"
\* SQL NULL of the nullable timestamp column googleTokenExpiry
NullTime == -1

\* JavaScript truthiness of a (string | null) value: null and "" are falsy
Truthy(s) == s /= Null /\ s /= ""

\* a Date object is truthy whatever its value; only null is falsy
DateTruthy(t) == t /= NullTime

NoRow == [present |-> FALSE, access |-> Null, refresh |-> Null, expiry |-> NullTime]

\* access tokens and lifetimes (expires_in, seconds) the OAuth endpoint returns
NewTokens == {"a1", "a2"}
Lifetimes == {1, 2}
\* refresh_token is optional in a TokenResponse (Null: absent)
RefreshTokens == {Null, "r2"}
TokenResponses ==
    [access_token : NewTokens, refresh_token : RefreshTokens, expires_in : Lifetimes]

\* Credential rows the store can hold before any call of this model:
\* never connected (all NULL), connected by exchangeCode (all three set,
\* refresh token "" when the response carried none)
InitRows ==
    {NoRow}
    \cup [present : {TRUE}, access : {Null}, refresh : {Null}, expiry : {NullTime}]
    \cup [present : {TRUE}, access : {"a0"}, refresh : {"", "r1"}, expiry : {TickMs}]
    \cup [present : {TRUE}, access : {Null}, refresh : {"r1"}, expiry : {NullTime, TickMs}]

Ok(v) == [ok |-> TRUE, val |-> v]
Err(m) == [ok |-> FALSE, val |-> m]
NoResult == [ok |-> FALSE, val |-> "pending"]

ErrNoDb == "Database not available"
ErrQuery == "query failed"
ErrNotConnected == "User not connected to Google"
ErrNoConfig == "Google OAuth credentials not configured"
ErrRefresh == "Failed to refresh token"

\* getDb() gives a handle ("ok"), gives null ("unavailable"), or the query
\* issued on the handle rejects ("error")
DbStatus == {"ok", "unavailable", "error"}

----------------------------------------------------------------------------
(* TokenLifecycleManager: getValidAccessToken *)

NotConnected_RowOnly(row) == ~row.present

\* line 140: !user || !user.googleRefreshToken
NotConnected(row) == ~row.present \/ ~Truthy(row.refresh)

CacheValid_Inclusive(row, t) ==
    DateTruthy(row.expiry) /\ Truthy(row.access) /\ row.expiry >= t

CacheValid_Reversed(row, t) ==
    DateTruthy(row.expiry) /\ Truthy(row.access) /\ row.expiry < t

\* line 146: expiry && accessToken && expiry > now
CacheValid(row, t) ==
    DateTruthy(row.expiry) /\ Truthy(row.access) /\ row.expiry > t

ExpiryAfter_NoScale(t, expiresIn) == t + expiresIn

\* line 152: new Date(Date.now() + tokens.expires_in * 1000)
ExpiryAfter(t, expiresIn) == t + expiresIn * 1000

IdleCall ==
    [pc |-> "idle", user |-> 0, looked |-> FALSE, snap |-> NoRow, readAt |-> 0,
     outcome |-> "none", access |-> Null, gotRefresh |-> Null, expiresIn |-> 0,
     expiry |-> NullTime, gotAt |-> 0,
     result |-> NoResult, nRefresh |-> 0, nFetch |-> 0, nWrite |-> 0]

Finish(call, res) == [call EXCEPT !.pc = "done", !.result = res]

\* lines 134-148: getDb, select the user row, NotConnected check, cache hit
TokenLookup(call, u, db) ==
    LET row == users[u]
        c1 == [call EXCEPT !.user = u]
        c2 == [c1 EXCEPT !.looked = TRUE, !.snap = row, !.readAt = now]
    IN  IF db = "unavailable" THEN Finish(c1, Err(ErrNoDb))
        ELSE IF db = "error" THEN Finish(c1, Err(ErrQuery))
        ELSE IF NotConnected(row) THEN Finish(c2, Err(ErrNotConnected))
        ELSE IF CacheValid(row, now) THEN Finish(c2, Ok(row.access))
        ELSE [c2 EXCEPT !.pc = "refresh"]

RefreshOutcomes == {"ok", "http_error", "no_config"}

TokenRefresh_Retry(call, outcome, resp) ==
    LET c1 == [call EXCEPT !.nRefresh = @ + 1, !.outcome = outcome]
    IN  IF outcome = "no_config" THEN Finish(c1, Err(ErrNoConfig))
        ELSE IF outcome = "http_error"
             THEN IF call.nRefresh = 0
                  THEN [c1 EXCEPT !.nFetch = @ + 1]
                  ELSE Finish([c1 EXCEPT !.nFetch = @ + 1], Err(ErrRefresh))
        ELSE [c1 EXCEPT !.nFetch = @ + 1, !.pc = "update",
                        !.access = resp.access_token,
                        !.gotRefresh = resp.refresh_token,
                        !.expiresIn = resp.expires_in, !.gotAt = now,
                        !.expiry = ExpiryAfter(now, resp.expires_in)]

\* lines 101-128 and 151-152: refreshAccessToken, then the new expiry
TokenRefresh(call, outcome, resp) ==
    LET c1 == [call EXCEPT !.nRefresh = @ + 1, !.outcome = outcome]
    IN  IF outcome = "no_config" THEN Finish(c1, Err(ErrNoConfig))
        ELSE IF outcome = "http_error"
             THEN Finish([c1 EXCEPT !.nFetch = @ + 1], Err(ErrRefresh))
        ELSE [c1 EXCEPT !.nFetch = @ + 1, !.pc = "update",
                        !.access = resp.access_token,
                        !.gotRefresh = resp.refresh_token,
                        !.expiresIn = resp.expires_in, !.gotAt = now,
                        !.expiry = ExpiryAfter(now, resp.expires_in)]

UpdatedUsers_ViaSave(tbl, u, access, expiry) ==
    IF tbl[u].present
    THEN [tbl EXCEPT ![u].access = access, ![u].expiry = expiry, ![u].refresh = ""]
    ELSE tbl

UpdatedUsers_KeepLaterExpiry(tbl, u, access, expiry) ==
    IF tbl[u].present
    THEN [tbl EXCEPT ![u].access = access,
                     ![u].expiry = IF tbl[u].expiry > expiry THEN tbl[u].expiry
                                   ELSE expiry]
    ELSE tbl

\* lines 154-160: update users set access token and expiry where id = userId
UpdatedUsers(tbl, u, access, expiry) ==
    IF tbl[u].present
    THEN [tbl EXCEPT ![u].access = access, ![u].expiry = expiry]
    ELSE tbl

GetValidAccessTokenBegin(c, u, db) ==
    /\ tcall[c].pc = "idle"
    /\ tcall' = [tcall EXCEPT ![c] = TokenLookup(tcall[c], u, db)]
    /\ UNCHANGED <<auxVars, now, users, storeVars, syncVars, schedVars>>

GetValidAccessTokenRefresh(c, outcome, resp) ==
    /\ tcall[c].pc = "refresh"
    /\ tcall' = [tcall EXCEPT ![c] = TokenRefresh(tcall[c], outcome, resp)]
    /\ UNCHANGED <<auxVars, now, users, storeVars, syncVars, schedVars>>

\* lines 154-162: the update resolves and the new token is returned, or it
\* rejects and the call rejects with it
TokenPersist(call, db) ==
    IF db = "ok"
    THEN Finish([call EXCEPT !.nWrite = @ + 1], Ok(call.access))
    ELSE Finish(call, Err(ErrQuery))

\* the users table after the call has taken the step that ends in `after`
UsersAfter(tbl, before, after) ==
    IF after.nWrite > before.nWrite
    THEN UpdatedUsers(tbl, after.user, after.access, after.expiry)
    ELSE tbl

GetValidAccessTokenPersist(c, db) ==
    /\ tcall[c].pc = "update"
    /\ tcall' = [tcall EXCEPT ![c] = TokenPersist(tcall[c], db)]
    /\ users' = UsersAfter(users, tcall[c], tcall'[c])
    /\ UNCHANGED <<auxVars, now, storeVars, syncVars, schedVars>>

\* the caller has consumed the result; the slot serves the next call
GetValidAccessTokenReturn(c) ==
    /\ tcall[c].pc = "done"
    /\ tcall' = [tcall EXCEPT ![c] = IdleCall]
    /\ UNCHANGED <<auxVars, now, users, storeVars, syncVars, schedVars>>

\* lines 390-409: update users set all three columns where id = userId
saveGoogleTokens(tbl, u, accessToken, refreshToken, expiresIn, t) ==
    IF tbl[u].present
    THEN [tbl EXCEPT ![u] = [present |-> TRUE, access |-> accessToken,
                             refresh |-> refreshToken,
                             expiry |-> ExpiryAfter(t, expiresIn)]]
    ELSE tbl

\* routers.ts line 63: tokens.refresh_token || ""
OrEmpty(s) == IF Truthy(s) THEN s ELSE ""

\* routers.ts line 56: the message of the not-logged-in result (a Japanese
\* sentence, "login is required"), kept as one token
ErrLogin == "login required"
\* line 92: the prefix of the message exchangeCodeForTokens throws
ErrExchange == "Failed to exchange code for tokens"

NoExchange ==
    [pc |-> "idle", n |-> 0, user |-> 0, outcome |-> "none", db |-> "none",
     resp |-> [access_token |-> Null, refresh_token |-> Null, expires_in |-> 0],
     at |-> 0, result |-> [success |-> FALSE, error |-> ""]]

\* routers.ts lines 54-70: what exchangeCode returns (u = 0: no ctx.user)
ExchangeResult(u, outcome, db) ==
    IF u = 0 THEN [success |-> FALSE, error |-> ErrLogin]
    ELSE IF outcome = "no_config"
         THEN [success |-> FALSE, error |-> "Error: " \o ErrNoConfig]
    ELSE IF outcome = "http_error"
         THEN [success |-> FALSE, error |-> "Error: " \o ErrExchange]
    ELSE IF db = "unavailable" THEN [success |-> FALSE, error |-> "Error: " \o ErrNoDb]
    ELSE IF db = "error" THEN [success |-> FALSE, error |-> "Error: " \o ErrQuery]
    ELSE [success |-> TRUE, error |-> ""]

\* exchanges of an authorization code followed in one behaviour
MaxExchanges == 1

\* the exchange ends with what ExchangeResult gives for these outcomes
ExchangeDone(x, outcome, db) ==
    [x EXCEPT !.pc = "done", !.outcome = outcome, !.db = db,
              !.result = ExchangeResult(x.user, outcome, db)]

\* routers.ts lines 54-59 with googleSearchConsole.ts lines 69-88: the login
\* check and the check of the OAuth client configuration, then the token
\* request is sent (u = 0: no ctx.user)
ExchangeCodeBegin(u, configured) ==
    /\ xchg.pc \in {"idle", "done"}
    /\ xchg.n < MaxExchanges
    /\ LET x == [NoExchange EXCEPT !.n = xchg.n + 1, !.user = u]
       IN  xchg' = IF u = 0 \/ ~configured THEN ExchangeDone(x, "no_config", "ok")
                   ELSE [x EXCEPT !.pc = "fetch"]
    /\ UNCHANGED <<router, manual, batch, ups, csv, status, score, now, tokenVars, storeVars,
                   syncVars, schedVars>>

\* googleSearchConsole.ts lines 90-95, routers.ts lines 60-65 and
\* googleSearchConsole.ts lines 396-408: the token request settles; on a
\* response saveGoogleTokens gets the handle, reads the clock for the
\* expiry and issues its update
ExchangeCodeResponse(outcome, resp, db) ==
    /\ xchg.pc = "fetch"
    /\ xchg' = IF outcome /= "ok" THEN ExchangeDone(xchg, "http_error", "ok")
               ELSE IF db /= "ok"
                    THEN ExchangeDone([xchg EXCEPT !.resp = resp], "ok", "unavailable")
               ELSE [xchg EXCEPT !.pc = "update", !.outcome = "ok", !.resp = resp,
                                 !.at = now]
    /\ UNCHANGED <<router, manual, batch, ups, csv, status, score, now, tokenVars, storeVars,
                   syncVars, schedVars>>

\* googleSearchConsole.ts lines 401-408 and routers.ts lines 67-70: the
\* update is applied and exchangeCode returns success, or it rejects
ExchangeCodePersist(db) ==
    /\ xchg.pc = "update"
    /\ xchg' = ExchangeDone(xchg, "ok", db)
    /\ users' = IF db = "ok"
                THEN saveGoogleTokens(users, xchg.user, xchg.resp.access_token,
                                      OrEmpty(xchg.resp.refresh_token),
                                      xchg.resp.expires_in, xchg.at)
                ELSE users
    /\ UNCHANGED <<router, manual, batch, ups, csv, status, score, now, tcall, storeVars,
                   syncVars, schedVars>>

Tick ==
    /\ now + TickMs <= MaxTime
    /\ now' = now + TickMs
    /\ UNCHANGED <<auxVars, tokenVars, storeVars, syncVars, schedVars>>

----------------------------------------------------------------------------
(* Tracked domains *)

MaxDomains == 2

\* strings the code inspects or builds are sequences of characters
Http == <<"h", "t", "t", "p">>
Https == <<"h", "t", "t", "p", "s", ":", "/", "/">>
MobileSuffix == <<" ", "(", "m", "o", "b", "i", "l", "e", ")">>
DesktopSuffix == <<" ", "(", "d", "e", "s", "k", "t", "o", "p", ")">>

\* String.prototype.startsWith
StartsWith(str, prefix) ==
    Len(str) >= Len(prefix) /\ SubSeq(str, 1, Len(prefix)) = prefix

\* scheduler.ts line 93, pageSpeedInsights.ts lines 180-182
UrlOf(domain) == IF StartsWith(domain, Http) THEN domain ELSE Https \o domain

DomainNames == { <<"a", ".", "i", "o">>, <<"h", "t", "t", "p", ":", "/", "/", "b">> }

\* the rows of a sequence as a bag
SeqToBag(rows) ==
    [x \in {rows[i] : i \in 1..Len(rows)} |->
        Cardinality({i \in 1..Len(rows) : rows[i] = x})]

InsertRows_Upsert(tbl, rows) ==
    tbl (+) SeqToBag(SelectSeq(rows, LAMBDA r :
                \A x \in BagToSet(tbl) :
                    [x EXCEPT !.date = 0] /= [r EXCEPT !.date = 0]))

InsertRows_Overwrite(tbl, rows) == IF rows = <<>> THEN tbl ELSE SeqToBag(rows)

\* db.insert(table).values(row) for every row, in order: the table has no
\* unique key, every insert appends
InsertRows(tbl, rows) == tbl (+) SeqToBag(rows)
Properties == {Null, "", "sc-domain:a"}

DomainRows ==
    [id : 1..MaxDomains, userId : UserIds, domain : DomainNames, property : Properties]

\* tracked_domains tables of at most MaxDomains rows, ids auto-incremented
DomainTables ==
    UNION { { t \in [1..n -> DomainRows] : \A i \in 1..n : t[i].id = i } :
            n \in 0..MaxDomains }

----------------------------------------------------------------------------
(* SchedulerService *)

MaxRuns == 1
MaxStarts == 2
RunIds == 1..MaxRuns

\* the columns updatePageSpeedData sets (scheduler.ts lines 108-121, 126-139)
SchedulerColumns ==
    {"performanceScore", "accessibilityScore", "bestPracticesScore", "seoScore",
     "fcp", "lcp", "cls", "tbt", "speedIndex"}

PageSpeedRow(domainId, url, t, cols) ==
    [domainId |-> domainId, url |-> url, date |-> t, cols |-> cols]

\* updatePageSpeedData (scheduler.ts lines 91-147) one await at a time. stage
\* is the await the call stands at: "fetch" (Promise.all of the two fetches),
\* "getDb", "mobile" and "desktop" (the insert issued), "done" (settled).
\* failed names the await that gave null or rejected; ret is what the call
\* returned
IdleUpdate ==
    [stage |-> "none", mobileOk |-> FALSE, desktopOk |-> FALSE, date |-> NullTime,
     failed |-> "none", ret |-> "none"]

\* lines 92-99: the url is built and both fetches are issued
UpdateBegin == [IdleUpdate EXCEPT !.stage = "fetch", !.ret = "pending"]

\* lines 96-101: both fetches have settled, a failure swallowed to null;
\* getDb is awaited
UpdateFetched(u, mobileOk, desktopOk) ==
    [u EXCEPT !.stage = "getDb", !.mobileOk = mobileOk, !.desktopOk = desktopOk]

\* line 141: return { mobile, desktop }
UpdateSettled(u) == [u EXCEPT !.stage = "done", !.ret = "value"]

UpdateFailed_NoCatch(u) == [u EXCEPT !.failed = u.stage, !.stage = "done", !.ret = "threw"]

\* lines 143-146: what an insert threw is caught and null returned
UpdateFailed(u) == [u EXCEPT !.failed = u.stage, !.stage = "done", !.ret = "null"]

\* lines 101-107, 125: a null handle returns null; otherwise the clock is
\* read (line 104) and the insert of the first non-null result is issued
UpdateGotDb(u, db, t) ==
    IF db /= "ok" THEN [u EXCEPT !.failed = "getDb", !.stage = "done", !.ret = "null"]
    ELSE LET v == [u EXCEPT !.date = t]
         IN  IF u.mobileOk THEN [v EXCEPT !.stage = "mobile"]
             ELSE IF u.desktopOk THEN [v EXCEPT !.stage = "desktop"]
             ELSE UpdateSettled(v)

\* lines 108-121 and 126-139: the row of the insert the call stands at
UpdateRow(d, u) ==
    PageSpeedRow(d.id,
                 UrlOf(d.domain) \o (IF u.stage = "mobile" THEN MobileSuffix
                                     ELSE DesktopSuffix),
                 u.date, SchedulerColumns)

\* lines 121-141: the insert awaited has settled; after the mobile insert the
\* desktop insert is issued when the desktop result is not null
UpdateInserted(u, ok) ==
    IF ~ok THEN UpdateFailed(u)
    ELSE IF u.stage = "mobile" /\ u.desktopOk THEN [u EXCEPT !.stage = "desktop"]
    ELSE UpdateSettled(u)

\* by tells what called runDailyUpdate: the one-shot timer, the recurring
\* timer or a caller of the public method
IdleRun ==
    [pc |-> "idle", by |-> "none", loaded |-> FALSE, doms |-> <<>>, idx |-> 1,
     attempted |-> <<>>, stopIdx |-> 0, threw |-> FALSE, upd |-> IdleUpdate]

\* lines 54-59: runDailyUpdate is called and awaits getDb
RunBegin(by) == [IdleRun EXCEPT !.pc = "getDb", !.by = by]

\* lines 59-67: getDb settles; a null handle returns, otherwise the select of
\* all tracked domains is issued
RunGotHandle(run, db) ==
    IF db = "ok" THEN [run EXCEPT !.pc = "select"] ELSE [run EXCEPT !.pc = "done"]

RunLoad_NoCatch(run, ok, tbl) ==
    IF ok
    THEN [run EXCEPT !.loaded = TRUE, !.doms = tbl,
                     !.pc = IF Len(tbl) = 0 THEN "done" ELSE "loop"]
    ELSE [run EXCEPT !.pc = "done", !.threw = TRUE]

\* lines 65-71, 83-85: the select settles with the rows the table holds then;
\* a rejected select is caught by the outer catch
RunLoad(run, ok, tbl) ==
    IF ok
    THEN [run EXCEPT !.loaded = TRUE, !.doms = tbl,
                     !.pc = IF Len(tbl) = 0 THEN "done" ELSE "loop"]
    ELSE [run EXCEPT !.pc = "done"]

\* the record that holds the next invocation of runDailyUpdate
FreeRun(r) ==
    runs[r].pc = "idle" /\ \A q \in DOMAIN runs : q < r => runs[q].pc /= "idle"

AfterDomain_AbortOnFailure(run, ret) ==
    IF ret = "null"
    THEN [run EXCEPT !.pc = "done", !.threw = TRUE]
    ELSE [run EXCEPT !.idx = @ + 1,
                     !.pc = IF run.idx + 1 > Len(run.doms) THEN "done" ELSE "loop"]

AfterDomain_StopAware(run, ret) ==
    [run EXCEPT !.idx = @ + 1,
                !.pc = IF run.idx + 1 > Len(run.doms) \/ ~isRunning
                       THEN "done" ELSE "loop"]

\* lines 71-82: whatever the domain's update returned (or threw, line 77),
\* the for-of loop moves to the next domain and ends after the last one
AfterDomain(run, ret) ==
    [run EXCEPT !.idx = @ + 1,
                !.pc = IF run.idx + 1 > Len(run.doms) THEN "done" ELSE "loop"]

\* lines 71-75: the loop calls updatePageSpeedData for the domain it stands
\* at; attempted lists the ids the call has been made for
NextIteration(run) ==
    IF run.pc = "loop"
    THEN [run EXCEPT !.upd = UpdateBegin,
                     !.attempted = Append(@, run.doms[run.idx].id)]
    ELSE [run EXCEPT !.upd = IdleUpdate]

\* the run once the update of its domain has taken a step
RunAfterUpdate(run, u) ==
    IF u.stage = "done" THEN NextIteration(AfterDomain(run, u.ret))
    ELSE [run EXCEPT !.upd = u]

AlreadyRunning_Never == FALSE

\* line 20: if (this.isRunning) return
AlreadyRunning == isRunning

SchedulerInit ==
    /\ isRunning = FALSE
    /\ intervalId = 0
    /\ intervals = {}
    /\ timeouts = 0
    /\ timerSeq = 0
    /\ nStart = 0
    /\ runs = [r \in RunIds |-> IdleRun]

\* lines 19-37
Start ==
    /\ nStart < MaxStarts
    /\ nStart' = nStart + 1
    /\ IF AlreadyRunning
       THEN UNCHANGED <<isRunning, intervalId, intervals, timeouts, timerSeq>>
       ELSE /\ isRunning' = TRUE
            /\ timeouts' = timeouts + 1
            /\ intervalId' = timerSeq + 1
            /\ intervals' = intervals \cup {timerSeq + 1}
            /\ timerSeq' = timerSeq + 1
    /\ UNCHANGED <<auxVars, now, tokenVars, storeVars, syncVars, runs>>

Stop_FlagOnly ==
    /\ isRunning' = FALSE
    /\ runs' = [r \in DOMAIN runs |->
                  IF runs[r].pc \in {"getDb", "select", "loop"} /\ runs[r].stopIdx = 0
                  THEN [runs[r] EXCEPT !.stopIdx = runs[r].idx]
                  ELSE runs[r]]
    /\ UNCHANGED <<auxVars, now, tokenVars, storeVars, syncVars, intervals, intervalId,
                   timeouts, timerSeq, nStart>>

\* lines 42-49; a run in progress is not touched (stopIdx records the domain
\* it had come to, the first one while it was still loading the list)
Stop ==
    /\ IF intervalId /= 0
       THEN /\ intervals' = intervals \ {intervalId}
            /\ intervalId' = 0
       ELSE UNCHANGED <<intervals, intervalId>>
    /\ isRunning' = FALSE
    /\ runs' = [r \in DOMAIN runs |->
                  IF runs[r].pc \in {"getDb", "select", "loop"} /\ runs[r].stopIdx = 0
                  THEN [runs[r] EXCEPT !.stopIdx = runs[r].idx]
                  ELSE runs[r]]
    /\ UNCHANGED <<auxVars, now, tokenVars, storeVars, syncVars, timeouts, timerSeq, nStart>>

\* lines 29-31: the one-shot timer fires and calls runDailyUpdate
TimeoutFire(r) ==
    /\ timeouts > 0
    /\ FreeRun(r)
    /\ timeouts' = timeouts - 1
    /\ runs' = [runs EXCEPT ![r] = RunBegin("timeout")]
    /\ UNCHANGED <<auxVars, now, tokenVars, storeVars, syncVars, isRunning, intervalId, intervals,
                   timerSeq, nStart>>

\* lines 34-36: the recurring timer fires and calls runDailyUpdate
IntervalFire(t, r) ==
    /\ t \in intervals
    /\ FreeRun(r)
    /\ runs' = [runs EXCEPT ![r] = RunBegin("interval")]
    /\ UNCHANGED <<auxVars, now, tokenVars, storeVars, syncVars, isRunning, intervalId, intervals,
                   timeouts, timerSeq, nStart>>

\* lines 54-59: runDailyUpdate is a public static method, called here by
\* something else than a timer
RunDailyUpdate(r) ==
    /\ FreeRun(r)
    /\ runs' = [runs EXCEPT ![r] = RunBegin("call")]
    /\ UNCHANGED <<auxVars, now, tokenVars, storeVars, syncVars, isRunning, intervalId, intervals,
                   timeouts, timerSeq, nStart>>

\* lines 59-67: getDb of the run settles
RunDailyUpdateGotDb(r, db) ==
    /\ runs[r].pc = "getDb"
    /\ runs' = [runs EXCEPT ![r] = RunGotHandle(@, db)]
    /\ UNCHANGED <<auxVars, now, tokenVars, storeVars, syncVars, isRunning, intervalId, intervals,
                   timeouts, timerSeq, nStart>>

\* lines 65-75: the select of the run settles and the loop begins
RunDailyUpdateSelected(r, ok) ==
    /\ runs[r].pc = "select"
    /\ runs' = [runs EXCEPT ![r] = NextIteration(RunLoad(@, ok, trackedDomains))]
    /\ UNCHANGED <<auxVars, now, tokenVars, storeVars, syncVars, isRunning, intervalId, intervals,
                   timeouts, timerSeq, nStart>>

\* lines 96-101 inside the loop of lines 71-80: the fetches of the domain
\* settle
RunFetched(r, mobileOk, desktopOk) ==
    /\ runs[r].pc = "loop"
    /\ runs[r].upd.stage = "fetch"
    /\ runs' = [runs EXCEPT ![r].upd = UpdateFetched(@, mobileOk, desktopOk)]
    /\ UNCHANGED <<auxVars, now, tokenVars, storeVars, syncVars, isRunning, intervalId,
                   intervals, timeouts, timerSeq, nStart>>

\* lines 101-107, 125: getDb settles
RunGotDb(r, db) ==
    /\ runs[r].pc = "loop"
    /\ runs[r].upd.stage = "getDb"
    /\ runs' = [runs EXCEPT ![r] = RunAfterUpdate(@, UpdateGotDb(@.upd, db, now))]
    /\ UNCHANGED <<auxVars, now, tokenVars, storeVars, syncVars, isRunning, intervalId,
                   intervals, timeouts, timerSeq, nStart>>

\* lines 108-121 or 126-139: the insert awaited settles
RunInserted(r, ok) ==
    /\ runs[r].pc = "loop"
    /\ runs[r].upd.stage \in {"mobile", "desktop"}
    /\ LET run == runs[r]
           d == run.doms[run.idx]
       IN  /\ pageSpeedHistory' = IF ok THEN InsertRows(pageSpeedHistory,
                                                        <<UpdateRow(d, run.upd)>>)
                                  ELSE pageSpeedHistory
           /\ runs' = [runs EXCEPT ![r] = RunAfterUpdate(run, UpdateInserted(run.upd, ok))]
    /\ UNCHANGED <<auxVars, now, tokenVars, syncVars, trackedDomains, domainHistory,
                   keywordHistory, trackedKeywords, autoInc, isRunning, intervalId, intervals,
                   timeouts, timerSeq, nStart>>

----------------------------------------------------------------------------
(* Ranking/traffic sync: syncSearchConsoleData *)

DayMs == 86400000

\* the rows of a table that satisfy where userId = u, in table order
SelectByUser(tbl, u) == SelectSeq(tbl, LAMBDA d : d.userId = u)

HasProperty_Any(d) == TRUE

\* line 299: if (!domain.searchConsoleProperty) continue
HasProperty(d) == Truthy(d.property)

\* String(error) of an Error object
StringOf(msg) == "Error: " \o msg

SyncFailure_Rethrow(msg) == [kind |-> "threw", error |-> StringOf(msg)]

\* lines 376-384: the outer catch of syncSearchConsoleData
SyncFailure(msg) ==
    [kind |-> "returned", success |-> FALSE, domainsUpdated |-> 0,
     keywordsUpdated |-> 0, error |-> StringOf(msg)]

\* lines 284 and 375
SyncSuccess(nd, nk) ==
    [kind |-> "returned", success |-> TRUE, domainsUpdated |-> nd,
     keywordsUpdated |-> nk]

Pending == [kind |-> "pending"]

\* calls of the two sync flows followed in one behaviour
MaxSyncs == 2

\* calendar day of a timestamp
DayOf(t) == t \div DayMs

\* round counts the calls begun so far; dhLog and khLog record, over all calls,
\* the inserts into domain_history and keyword_history that resolved. Inside
\* the loop, step is the await the iteration stands at: "perf"
\* (fetchSitePerformance), "dhIns" (the domain_history insert), "kwFetch"
\* (fetchSearchAnalytics), then for row ridx of rows "select", "insert" (into
\* tracked_keywords) and "history" (the keyword_history insert)
IdleSync ==
    [pc |-> "idle", user |-> 0, db |-> "none", list |-> "none", tok |-> IdleCall,
     doms |-> <<>>, endDate |-> NullTime, idx |-> 1, domainsUpdated |-> 0,
     keywordsUpdated |-> 0, result |-> Pending, nApi |-> 0, nRows |-> 0,
     round |-> 0, dhLog |-> EmptyBag, khLog |-> EmptyBag, failed |-> <<>>,
     step |-> "none", rows |-> <<>>, ridx |-> 1, keywordId |-> 0]

\* line 278: the state of the call once getValidAccessToken has taken a step:
\* still awaiting it, failed by what it threw, or on to the select
SyncAfterToken(call, tok) ==
    LET c == [call EXCEPT !.tok = tok]
    IN  IF tok.pc = "refresh" THEN [c EXCEPT !.pc = "refresh"]
        ELSE IF tok.pc = "update" THEN [c EXCEPT !.pc = "update"]
        ELSE IF tok.result.ok THEN [c EXCEPT !.pc = "list"]
        ELSE [c EXCEPT !.pc = "done", !.result = SyncFailure(tok.result.val)]

\* lines 274-278: getDb, then getValidAccessToken up to its first await
SyncStart(u, db, tokDb) ==
    LET c == [IdleSync EXCEPT !.user = u, !.db = db, !.round = gsync.round + 1,
                              !.dhLog = gsync.dhLog, !.khLog = gsync.khLog]
    IN  IF db /= "ok" THEN [c EXCEPT !.pc = "done", !.result = SyncFailure(ErrNoDb)]
        ELSE SyncAfterToken(c, TokenLookup(IdleCall, u, tokDb))

\* line 299: the first domain from position i on that has a property
\* (Len(doms) + 1 when there is none)
RECURSIVE FirstWithProperty(_, _)
FirstWithProperty(doms, i) ==
    IF i > Len(doms) \/ HasProperty(doms[i]) THEN i
    ELSE FirstWithProperty(doms, i + 1)

\* lines 298-308, 375: the loop stands before domain idx: domains without
\* property are skipped, fetchSitePerformance is called for the next one, and
\* after the last one the counters are returned
SyncEnter(call) ==
    LET i == FirstWithProperty(call.doms, call.idx)
        c == [call EXCEPT !.idx = i, !.rows = <<>>, !.ridx = 1, !.keywordId = 0]
    IN  IF i > Len(call.doms)
        THEN [c EXCEPT !.pc = "done", !.step = "none",
                       !.result = SyncSuccess(call.domainsUpdated, call.keywordsUpdated)]
        ELSE [c EXCEPT !.pc = "loop", !.step = "perf", !.nApi = @ + 1]

\* lines 281-303: select the user's domains; endDate is yesterday, computed
\* once before the loop
SyncList(call, list) ==
    LET c == [call EXCEPT !.list = list]
        doms == SelectByUser(trackedDomains, call.user)
    IN  IF list /= "ok" THEN [c EXCEPT !.pc = "done", !.result = SyncFailure(ErrQuery)]
        ELSE IF Len(doms) = 0
             THEN [c EXCEPT !.pc = "done", !.result = SyncSuccess(0, 0)]
        ELSE SyncEnter([c EXCEPT !.doms = doms, !.endDate = now - DayMs])

\* keyword feeds of fetchSearchAnalytics (row.keys[0] of every row)
Feeds == { <<>>, <<"k1">>, <<"k1", "k1">>, <<"k1", "k2">> }

\* the keywords of the feeds
Keywords == UNION { {f[i] : i \in 1..Len(f)} : f \in Feeds }

\* lines 337-342: the rows of tracked_keywords the select matches
KeywordMatches(tbl, domainId, keyword) ==
    { i \in 1..Len(tbl) : tbl[i].domainId = domainId /\ tbl[i].keyword = keyword }

Min(S) == CHOOSE x \in S : \A y \in S : x <= y

\* lines 347-352 (and routers.ts line 215): the table after an insert into
\* tracked_keywords; the row gets the id after the last one given out
KeywordInsert(tbl, last, u, domainId, keyword) ==
    Append(tbl, [id |-> last + 1, userId |-> u, domainId |-> domainId,
                 keyword |-> keyword])

SyncAdvance_AbortOnFailure(call) ==
    IF call.failed /= <<>>
    THEN [call EXCEPT !.idx = @ + 1, !.pc = "done", !.step = "none",
                      !.result = SyncSuccess(call.domainsUpdated, call.keywordsUpdated)]
    ELSE SyncEnter([call EXCEPT !.idx = @ + 1])

\* lines 298, 373-375: next domain, and the result after the last one
SyncAdvance(call) == SyncEnter([call EXCEPT !.idx = @ + 1])

\* lines 370-372: what the iteration threw is caught and the loop goes on
SyncDomainFailed(call) == SyncAdvance([call EXCEPT !.failed = Append(@, call.idx)])

\* lines 303-311: fetchSitePerformance has settled; the domain_history insert
\* is issued
SitePerformanceFetched(call, ok) ==
    IF ok THEN [call EXCEPT !.step = "dhIns"] ELSE SyncDomainFailed(call)

\* lines 311-318: the row of the domain_history insert
DomainHistoryRow(call) ==
    [domainId |-> call.doms[call.idx].id, date |-> call.endDate]

DomainHistoryInserted_CountBeforeInsert(call, ok) ==
    LET c == [call EXCEPT !.domainsUpdated = @ + 1]
    IN  IF ok
        THEN [c EXCEPT !.nRows = @ + 1, !.step = "kwFetch", !.nApi = @ + 1,
                       !.dhLog = @ (+) SetToBag({<<call.doms[call.idx].id,
                                                   DayOf(call.endDate)>>})]
        ELSE SyncDomainFailed(c)

\* lines 311-330: the domain_history insert has settled; domainsUpdated++ and
\* fetchSearchAnalytics is called
DomainHistoryInserted(call, ok) ==
    IF ok
    THEN [call EXCEPT !.domainsUpdated = @ + 1, !.nRows = @ + 1,
                      !.step = "kwFetch", !.nApi = @ + 1,
                      !.dhLog = @ (+) SetToBag({<<call.doms[call.idx].id,
                                                  DayOf(call.endDate)>>})]
    ELSE SyncDomainFailed(call)

\* lines 323-342: fetchSearchAnalytics has settled; with rows, the select of
\* the first row's keyword is issued
SearchAnalyticsFetched(call, ok, rows) ==
    IF ~ok THEN SyncDomainFailed(call)
    ELSE IF rows = <<>> THEN SyncAdvance(call)
    ELSE [call EXCEPT !.step = "select", !.rows = rows, !.ridx = 1]

\* lines 337-358: the select has settled: the id of the first match, or the
\* insert into tracked_keywords is issued
KeywordSelected(call, ok, tbl) ==
    LET found == KeywordMatches(tbl, call.doms[call.idx].id, call.rows[call.ridx])
    IN  IF ~ok THEN SyncDomainFailed(call)
        ELSE IF found = {} THEN [call EXCEPT !.step = "insert"]
        ELSE [call EXCEPT !.step = "history", !.keywordId = tbl[Min(found)].id]

\* lines 347-358: the insert has returned the new row
KeywordInserted(call, ok, id) ==
    IF ok THEN [call EXCEPT !.step = "history", !.keywordId = id]
    ELSE SyncDomainFailed(call)

\* lines 358-365: the row of the keyword_history insert
KeywordHistoryRow(call) == [keywordId |-> call.keywordId, date |-> call.endDate]

\* lines 358-369, 334: the keyword_history insert has settled;
\* keywordsUpdated++, then the next row or the next domain
KeywordHistoryInserted(call, ok) ==
    LET c == [call EXCEPT !.keywordsUpdated = @ + 1, !.nRows = @ + 1,
                          !.khLog = @ (+) SetToBag({<<call.doms[call.idx].id,
                                                      call.rows[call.ridx],
                                                      DayOf(call.endDate)>>})]
    IN  IF ~ok THEN SyncDomainFailed(call)
        ELSE IF call.ridx = Len(call.rows) THEN SyncAdvance(c)
        ELSE [c EXCEPT !.ridx = @ + 1, !.step = "select"]

\* one call of either sync flow is followed at a time: the two flows write
\* disjoint tables
SyncSearchConsoleBegin(u, db, tokDb) ==
    /\ gsync.pc = "idle" /\ psync.pc = "idle"
    /\ gsync.round + psync.round < MaxSyncs
    /\ gsync' = SyncStart(u, db, tokDb)
    /\ UNCHANGED <<auxVars, now, tokenVars, storeVars, psync, schedVars>>

SyncSearchConsoleRefresh(outcome, resp) ==
    /\ gsync.pc = "refresh"
    /\ gsync' = SyncAfterToken(gsync, TokenRefresh(gsync.tok, outcome, resp))
    /\ UNCHANGED <<auxVars, now, tokenVars, storeVars, psync, schedVars>>

SyncSearchConsolePersist(db) ==
    /\ gsync.pc = "update"
    /\ gsync' = SyncAfterToken(gsync, TokenPersist(gsync.tok, db))
    /\ users' = UsersAfter(users, gsync.tok, gsync'.tok)
    /\ UNCHANGED <<auxVars, now, tcall, storeVars, psync, schedVars>>

\* lines 281-303: the select of the user's domains settles
SyncSearchConsoleList(list) ==
    /\ gsync.pc = "list"
    /\ gsync' = SyncList(gsync, list)
    /\ UNCHANGED <<auxVars, now, tokenVars, storeVars, psync, schedVars>>

\* lines 303-308: fetchSitePerformance settles
SyncSearchConsolePerformance(ok) ==
    /\ gsync.pc = "loop" /\ gsync.step = "perf"
    /\ gsync' = SitePerformanceFetched(gsync, ok)
    /\ UNCHANGED <<auxVars, now, tokenVars, storeVars, psync, schedVars>>

\* lines 311-320: the domain_history insert settles
SyncSearchConsoleDomainHistory(ok) ==
    /\ gsync.pc = "loop" /\ gsync.step = "dhIns"
    /\ domainHistory' = IF ok THEN InsertRows(domainHistory, <<DomainHistoryRow(gsync)>>)
                        ELSE domainHistory
    /\ gsync' = DomainHistoryInserted(gsync, ok)
    /\ UNCHANGED <<auxVars, now, tokenVars, trackedDomains, pageSpeedHistory,
                   keywordHistory, trackedKeywords, autoInc, psync, schedVars>>

\* lines 323-333: fetchSearchAnalytics settles
SyncSearchConsoleAnalytics(ok, rows) ==
    /\ gsync.pc = "loop" /\ gsync.step = "kwFetch"
    /\ gsync' = SearchAnalyticsFetched(gsync, ok, rows)
    /\ UNCHANGED <<auxVars, now, tokenVars, storeVars, psync, schedVars>>

\* lines 337-342: the select of the row's keyword settles
SyncSearchConsoleKeywordSelect(ok) ==
    /\ gsync.pc = "loop" /\ gsync.step = "select"
    /\ gsync' = KeywordSelected(gsync, ok, trackedKeywords)
    /\ UNCHANGED <<auxVars, now, tokenVars, storeVars, psync, schedVars>>

\* lines 347-352: the insert into tracked_keywords settles
SyncSearchConsoleKeywordInsert(ok) ==
    /\ gsync.pc = "loop" /\ gsync.step = "insert"
    /\ IF ok
       THEN /\ trackedKeywords' = KeywordInsert(trackedKeywords, autoInc.keywords,
                                                gsync.user, gsync.doms[gsync.idx].id,
                                                gsync.rows[gsync.ridx])
            /\ autoInc' = [autoInc EXCEPT !.keywords = @ + 1]
       ELSE UNCHANGED <<trackedKeywords, autoInc>>
    /\ gsync' = KeywordInserted(gsync, ok, autoInc.keywords + 1)
    /\ UNCHANGED <<auxVars, now, tokenVars, trackedDomains, pageSpeedHistory,
                   domainHistory, keywordHistory, psync, schedVars>>

\* lines 358-367: the keyword_history insert settles
SyncSearchConsoleKeywordHistory(ok) ==
    /\ gsync.pc = "loop" /\ gsync.step = "history"
    /\ keywordHistory' = IF ok THEN InsertRows(keywordHistory, <<KeywordHistoryRow(gsync)>>)
                         ELSE keywordHistory
    /\ gsync' = KeywordHistoryInserted(gsync, ok)
    /\ UNCHANGED <<auxVars, now, tokenVars, trackedDomains, pageSpeedHistory,
                   domainHistory, trackedKeywords, autoInc, psync, schedVars>>

\* line 375 or 378-383: the caller has the result; the next call can begin
SyncSearchConsoleReturn ==
    /\ gsync.pc = "done"
    /\ gsync' = [IdleSync EXCEPT !.round = gsync.round, !.dhLog = gsync.dhLog,
                                 !.khLog = gsync.khLog]
    /\ UNCHANGED <<auxVars, now, tokenVars, storeVars, psync, schedVars>>

----------------------------------------------------------------------------
(* Page-performance sync: syncPageSpeedData *)

\* the columns analyzeAndSavePageSpeed sets (pageSpeedInsights.ts lines 135-151)
AnalyzeColumns ==
    {"performanceScore", "accessibilityScore", "bestPracticesScore", "seoScore",
     "lcp", "fid", "cls", "ttfb", "fcp", "speedIndex", "tbt", "rawData"}

\* lines 195-202: the outer catch of syncPageSpeedData
PsFailure(msg) ==
    [kind |-> "returned", success |-> FALSE, urlsAnalyzed |-> 0,
     error |-> StringOf(msg)]

\* lines 172 and 194
PsSuccess(n) == [kind |-> "returned", success |-> TRUE, urlsAnalyzed |-> n]

\* analyzeAndSavePageSpeed (lines 125-154) one await at a time: stage is the
\* await the call stands at ("getDb", "fetch", "insert"), or "done"; date is
\* the clock read when the values of the insert were built; failed names the
\* await that threw
IdleSave == [stage |-> "none", date |-> NullTime, failed |-> "none"]

\* line 129: getDb is awaited
SaveBegin == [IdleSave EXCEPT !.stage = "getDb"]

\* lines 129-132: a null handle throws, otherwise the fetch is issued
SaveGotDb(s, db) ==
    IF db = "ok" THEN [s EXCEPT !.stage = "fetch"]
    ELSE [s EXCEPT !.stage = "done", !.failed = "getDb"]

\* lines 132-138: the fetch has settled; the insert is issued with
\* date: new Date()
SaveFetched(s, ok, t) ==
    IF ok THEN [s EXCEPT !.stage = "insert", !.date = t]
    ELSE [s EXCEPT !.stage = "done", !.failed = "fetch"]

\* lines 135-153: the insert has settled
SaveInserted(s, ok) ==
    IF ok THEN [s EXCEPT !.stage = "done"]
    ELSE [s EXCEPT !.stage = "done", !.failed = "insert"]

\* lines 135-151: the row of the insert
SaveRow(domainId, url, s) == PageSpeedRow(domainId, url, s.date, AnalyzeColumns)

\* line 188: setTimeout(resolve, 1000)
SleepMs == 1000

\* inside the loop, step tells whether the iteration awaits
\* analyzeAndSavePageSpeed ("analyze", save telling where that call stands) or
\* the timer of line 188 ("sleep", due at wake)
IdlePs ==
    [pc |-> "idle", user |-> 0, db |-> "none", list |-> "none", doms |-> <<>>,
     idx |-> 1, urlsAnalyzed |-> 0, result |-> Pending, nApi |-> 0, nRows |-> 0,
     round |-> 0, failed |-> <<>>, step |-> "none", save |-> IdleSave,
     wake |-> NullTime]

\* lines 177-184, 194: the loop stands before domain idx: analyzeAndSavePageSpeed
\* is called for it, and after the last one the counter is returned
PsEnter(call) ==
    IF call.idx > Len(call.doms)
    THEN [call EXCEPT !.pc = "done", !.step = "none", !.save = IdleSave,
                      !.result = PsSuccess(call.urlsAnalyzed)]
    ELSE [call EXCEPT !.pc = "loop", !.step = "analyze", !.save = SaveBegin]

\* lines 164-177: getDb, select the user's domains
PsLoad(u, db, list) ==
    LET c == [IdlePs EXCEPT !.user = u, !.db = db, !.round = psync.round + 1]
        cl == [c EXCEPT !.list = list]
        doms == SelectByUser(trackedDomains, u)
    IN  IF db /= "ok" THEN [c EXCEPT !.pc = "done", !.result = PsFailure(ErrNoDb)]
        ELSE IF list /= "ok"
             THEN [cl EXCEPT !.pc = "done", !.result = PsFailure(ErrQuery)]
        ELSE IF Len(doms) = 0
             THEN [cl EXCEPT !.pc = "done", !.result = PsSuccess(0)]
        ELSE PsEnter([cl EXCEPT !.doms = doms])

PsAdvance_AbortOnFailure(call) ==
    IF call.failed /= <<>>
    THEN [call EXCEPT !.idx = @ + 1, !.pc = "done", !.step = "none", !.save = IdleSave,
                      !.result = PsSuccess(call.urlsAnalyzed)]
    ELSE PsEnter([call EXCEPT !.idx = @ + 1])

\* lines 177, 192-194: next domain, and the result after the last one
PsAdvance(call) == PsEnter([call EXCEPT !.idx = @ + 1])

\* lines 189-191: what the iteration threw is caught and the loop goes on,
\* without the delay of line 188
PsDomainFailed(call) == PsAdvance([call EXCEPT !.failed = Append(@, call.idx)])

\* lines 184-188: the call once analyzeAndSavePageSpeed has taken a step; when
\* it has resolved, urlsAnalyzed++ and the timer is set at time t
PsAfterSave(call, s, t) ==
    IF s.stage /= "done" THEN [call EXCEPT !.save = s]
    ELSE IF s.failed /= "none" THEN PsDomainFailed([call EXCEPT !.save = s])
    ELSE [call EXCEPT !.save = s, !.urlsAnalyzed = @ + 1, !.step = "sleep",
                      !.wake = t + SleepMs]

SyncPageSpeedBegin(u, db, list) ==
    /\ psync.pc = "idle" /\ gsync.pc = "idle"
    /\ gsync.round + psync.round < MaxSyncs
    /\ psync' = PsLoad(u, db, list)
    /\ UNCHANGED <<auxVars, now, tokenVars, storeVars, gsync, schedVars>>

\* lines 129-132 inside the loop: getDb settles
SyncPageSpeedGetDb(db) ==
    /\ psync.pc = "loop" /\ psync.step = "analyze" /\ psync.save.stage = "getDb"
    /\ LET s == SaveGotDb(psync.save, db)
       IN  psync' = PsAfterSave([psync EXCEPT !.nApi = IF s.stage = "fetch" THEN @ + 1
                                                       ELSE @], s, now)
    /\ UNCHANGED <<auxVars, now, tokenVars, storeVars, gsync, schedVars>>

\* lines 132-138 inside the loop: the fetch settles
SyncPageSpeedFetched(ok) ==
    /\ psync.pc = "loop" /\ psync.step = "analyze" /\ psync.save.stage = "fetch"
    /\ psync' = PsAfterSave(psync, SaveFetched(psync.save, ok, now), now)
    /\ UNCHANGED <<auxVars, now, tokenVars, storeVars, gsync, schedVars>>

\* lines 135-153 and 185-188 inside the loop: the insert settles
SyncPageSpeedInserted(ok) ==
    /\ psync.pc = "loop" /\ psync.step = "analyze" /\ psync.save.stage = "insert"
    /\ LET dom == psync.doms[psync.idx]
       IN  pageSpeedHistory' =
             IF ok THEN InsertRows(pageSpeedHistory,
                                   <<SaveRow(dom.id, UrlOf(dom.domain), psync.save)>>)
             ELSE pageSpeedHistory
    /\ psync' = PsAfterSave([psync EXCEPT !.nRows = IF ok THEN @ + 1 ELSE @],
                            SaveInserted(psync.save, ok), now)
    /\ UNCHANGED <<auxVars, now, tokenVars, trackedDomains, domainHistory, keywordHistory,
                   trackedKeywords, autoInc, gsync, schedVars>>

\* lines 188, 177: the timer fires, 1000 ms or more after it was set
SyncPageSpeedWake ==
    /\ psync.pc = "loop" /\ psync.step = "sleep"
    /\ now >= psync.wake
    /\ psync' = PsAdvance(psync)
    /\ UNCHANGED <<auxVars, now, tokenVars, storeVars, gsync, schedVars>>

\* line 194 or 197-201: the caller has the result; the next call can begin
SyncPageSpeedReturn ==
    /\ psync.pc = "done"
    /\ psync' = [IdlePs EXCEPT !.round = psync.round]
    /\ UNCHANGED <<auxVars, now, tokenVars, storeVars, gsync, schedVars>>

StoreEmpty ==
    /\ pageSpeedHistory = EmptyBag
    /\ domainHistory = EmptyBag
    /\ keywordHistory = EmptyBag
    /\ trackedKeywords = <<>>
    /\ autoInc = [domains |-> Len(trackedDomains), keywords |-> 0]

SyncInit ==
    /\ gsync = IdleSync
    /\ psync = IdlePs

----------------------------------------------------------------------------
(* AI-readability score: calculateAIReadabilityScore *)

\* JavaScript numbers are IEEE-754 doubles. Every value the function computes
\* is a non-negative multiple of 2^-60 below 2^7, held here exactly as five
\* limbs of 15 bits, least significant first.
LimbBase == 32768

\* the doubles of the literals 0.6, 0.4, 0.7, 0.3, 0.5, 0.25, 0.2
\* (0x3FE3333333333333, 0x3FD999999999999A, 0x3FE6666666666666,
\*  0x3FD3333333333333, 0x3FE0000000000000, 0x3FD0000000000000,
\*  0x3FC999999999999A)
D06 == <<6528, 13107, 26214, 19660, 0>>
D04 == <<26240, 19660, 6553, 13107, 0>>
D07 == <<13056, 26214, 19660, 22937, 0>>
D03 == <<19648, 6553, 13107, 9830, 0>>
D05 == <<0, 0, 0, 16384, 0>>
D025 == <<0, 0, 0, 8192, 0>>
D02 == <<13120, 26214, 19660, 6553, 0>>

RECURSIVE AddFrom(_, _, _, _)
AddFrom(x, y, i, carry) ==
    IF i > Len(x) THEN <<>>
    ELSE LET t == x[i] + y[i] + carry
         IN  <<t % LimbBase>> \o AddFrom(x, y, i + 1, t \div LimbBase)

\* exact sum of two values
LimbAdd(x, y) == AddFrom(x, y, 1, 0)

RECURSIVE MulFrom(_, _, _, _)
MulFrom(x, n, i, carry) ==
    IF i > Len(x) THEN <<>>
    ELSE LET t == x[i] * n + carry
         IN  <<t % LimbBase>> \o MulFrom(x, n, i + 1, t \div LimbBase)

\* exact product of a value and an integer 0..100
LimbMul(x, n) == MulFrom(x, n, 1, 0)

RECURSIVE BitLength(_)
BitLength(n) == IF n = 0 THEN 0 ELSE 1 + BitLength(n \div 2)

RECURSIVE Pow2(_)
Pow2(k) == IF k = 0 THEN 1 ELSE 2 * Pow2(k - 1)

\* number of significant bits of a value
LimbBits(x) ==
    LET top == {i \in 1..Len(x) : x[i] /= 0}
    IN  IF top = {} THEN 0
        ELSE LET h == CHOOSE i \in top : \A j \in top : j <= i
             IN  15 * (h - 1) + BitLength(x[h])

\* the double nearest an exact value: 53 significant bits, ties to even
RoundToDouble(x) ==
    LET n == LimbBits(x)
    IN  IF n <= 53 THEN x
        ELSE LET m == Pow2(n - 53)
                 r == x[1] % m
                 down == [x EXCEPT ![1] = @ - r]
                 up == r > m \div 2 \/ (r = m \div 2 /\ (x[1] \div m) % 2 = 1)
             IN  IF up THEN LimbAdd(down, <<m, 0, 0, 0, 0>>) ELSE down

\* n * c and a + b as the code's * and + compute them
DoubleMul(n, c) == RoundToDouble(LimbMul(c, n))
DoubleAdd(a, b) == RoundToDouble(LimbAdd(a, b))

\* Math.round: the nearest integer, a half rounds up
MathRound(x) == x[5] + (IF x[4] >= LimbBase \div 2 THEN 1 ELSE 0)

\* Math.min
MathMin(a, b) == IF a <= b THEN a ELSE b

\* lines 234-236: the bucket of one Core Web Vital
Bucket_Exclusive(v, good, fair) == IF v < good THEN 100 ELSE IF v < fair THEN 75 ELSE 50

Bucket(v, good, fair) == IF v <= good THEN 100 ELSE IF v <= fair THEN 75 ELSE 50

\* line 238: Math.round(sum / 3) for a sum of three buckets; the quotient is
\* a whole number or a third away from one, never near a half
RoundThird_Sum(sum) == sum

RoundThird(sum) == (2 * sum + 3) \div 6

\* lines 208-256
calculateAIReadabilityScore(m) ==
    LET semanticHTML ==
            MathMin(100, MathRound(DoubleAdd(DoubleMul(m.accessibilityScore, D06),
                                             DoubleMul(m.seoScore, D04))))
        schemaOrg ==
            MathMin(100, MathRound(DoubleAdd(DoubleMul(m.seoScore, D07),
                                             DoubleMul(m.bestPracticesScore, D03))))
        contentClarity ==
            MathMin(100, MathRound(
                DoubleAdd(DoubleAdd(DoubleMul(m.accessibilityScore, D05),
                                    DoubleMul(m.performanceScore, D03)),
                          DoubleMul(m.seoScore, D02))))
        lcpScore == Bucket(m.lcp, 2500, 4000)
        clsScore == Bucket(m.cls, 100, 250)
        fidScore == Bucket(m.fid, 100, 300)
        technicalSEO == RoundThird(lcpScore + clsScore + fidScore)
        overall ==
            MathRound(
                DoubleAdd(DoubleAdd(DoubleAdd(DoubleMul(semanticHTML, D03),
                                              DoubleMul(schemaOrg, D025)),
                                    DoubleMul(contentClarity, D025)),
                          DoubleMul(technicalSEO, D02)))
    IN  [overall |-> overall, semanticHTML |-> semanticHTML, schemaOrg |-> schemaOrg,
         contentClarity |-> contentClarity, technicalSEO |-> technicalSEO]

\* category scores and timings the function is applied to
ScoreSamples == {0, 1, 36, 57, 100}
LcpSamples == {0, 2500, 2501, 4000, 4001}
ClsSamples == {0, 100, 101, 250, 251}
FidSamples == {0, 100, 101, 300, 301}

Metrics ==
    [performanceScore : ScoreSamples, accessibilityScore : ScoreSamples,
     bestPracticesScore : ScoreSamples, seoScore : ScoreSamples,
     lcp : LcpSamples, cls : ClsSamples, fid : FidSamples]

NoMetrics ==
    [performanceScore |-> 0, accessibilityScore |-> 0, bestPracticesScore |-> 0,
     seoScore |-> 0, lcp |-> 0, cls |-> 0, fid |-> 0]

NoScore == [pc |-> "idle", metrics |-> NoMetrics, result |-> calculateAIReadabilityScore(NoMetrics)]

CalculateAIReadabilityScore ==
    /\ score.pc = "called"
    /\ score' = [score EXCEPT !.pc = "returned",
                               !.result = calculateAIReadabilityScore(score.metrics)]
    /\ UNCHANGED <<router, manual, batch, ups, csv, status, xchg, now, tokenVars, storeVars, syncVars, schedVars>>

\* scheduler.ts line 163: 24 * 60 * 60 * 1000
NextRunDelayMs == 86400000

NextRunOf_Always(id, t) == t + NextRunDelayMs

\* line 163: this.intervalId ? new Date(Date.now() + 24 h).toISOString() : null;
\* the ISO string has millisecond precision and is kept as its instant
NextRunOf(id, t) == IF id /= 0 THEN t + NextRunDelayMs ELSE NullTime

NoStatus ==
    [called |-> FALSE, at |-> 0, sawRunning |-> FALSE, sawInterval |-> 0,
     result |-> [isRunning |-> FALSE, nextRun |-> NullTime]]

\* lines 160-165: getStatus reads isRunning and intervalId
GetStatus ==
    /\ status' = [called |-> TRUE, at |-> now, sawRunning |-> isRunning,
                  sawInterval |-> intervalId,
                  result |-> [isRunning |-> isRunning,
                              nextRun |-> NextRunOf(intervalId, now)]]
    /\ UNCHANGED <<router, manual, batch, ups, csv, score, xchg, now, tokenVars, storeVars, syncVars, schedVars>>

----------------------------------------------------------------------------
(* manualUpdate: scheduler.ts lines 152-155 *)

\* calls of manualUpdate followed in one behaviour
MaxManual == 1

\* n counts the calls made; the arguments of the call in progress, the
\* page-speed table when it was made and where its update stands
NoManual ==
    [n |-> 0, domain |-> <<>>, domainId |-> 0, base |-> EmptyBag, upd |-> IdleUpdate]

\* lines 152-155: manualUpdate(domain, domainId) returns the promise of
\* updatePageSpeedData(domain, domainId), which issues the two fetches
ManualUpdate(domain, domainId) ==
    /\ manual.upd.stage \in {"none", "done"}
    /\ manual.n < MaxManual
    /\ manual' = [n |-> manual.n + 1, domain |-> domain, domainId |-> domainId,
                  base |-> pageSpeedHistory, upd |-> UpdateBegin]
    /\ UNCHANGED <<router, score, xchg, status, csv, ups, batch, now, tokenVars, storeVars,
                   syncVars, schedVars>>

\* lines 96-101: the fetches of the call settle
ManualFetched(mobileOk, desktopOk) ==
    /\ manual.upd.stage = "fetch"
    /\ manual' = [manual EXCEPT !.upd = UpdateFetched(@, mobileOk, desktopOk)]
    /\ UNCHANGED <<router, score, xchg, status, csv, ups, batch, now, tokenVars, storeVars,
                   syncVars, schedVars>>

\* lines 101-107, 125: getDb settles
ManualGotDb(db) ==
    /\ manual.upd.stage = "getDb"
    /\ manual' = [manual EXCEPT !.upd = UpdateGotDb(@, db, now)]
    /\ UNCHANGED <<router, score, xchg, status, csv, ups, batch, now, tokenVars, storeVars,
                   syncVars, schedVars>>

\* lines 108-121 or 126-139: the insert awaited settles
ManualInserted(ok) ==
    /\ manual.upd.stage \in {"mobile", "desktop"}
    /\ pageSpeedHistory' =
          IF ok THEN InsertRows(pageSpeedHistory,
                                <<UpdateRow([id |-> manual.domainId,
                                             domain |-> manual.domain], manual.upd)>>)
          ELSE pageSpeedHistory
    /\ manual' = [manual EXCEPT !.upd = UpdateInserted(@, ok)]
    /\ UNCHANGED <<router, score, xchg, status, csv, ups, batch, now, tokenVars, syncVars,
                   schedVars, trackedDomains, domainHistory, keywordHistory,
                   trackedKeywords, autoInc>>

----------------------------------------------------------------------------
(* Router procedures that write the tables the sync flows read:              *)
(* routers.ts lines 106-131, 150-169, 204-228, 256-275, 302-326.             *)

\* calls of keywordsRouter and pageSpeedRouter followed in one behaviour (the
\* ids of tracked_domains, and so the calls of domainsRouter.add that insert,
\* are bounded by MaxDomains)
MaxRouterCalls == 1

\* the pageSpeedRouter.analyze call: its input, where it stands ("fetch" is
\* the fetch of line 310, "save" the analyzeAndSavePageSpeed call of line
\* 315) and what it returned
NoAnalyze ==
    [pc |-> "idle", url |-> <<>>, domainId |-> 0, save |-> IdleSave,
     success |-> FALSE]

NoRouter == [n |-> 0, analyze |-> NoAnalyze]

\* lines 106-131: domainsRouter.add; u = 0 is a request without a user
DomainsAdd(u, domain, property, db) ==
    /\ autoInc.domains < MaxDomains
    /\ IF u /= 0 /\ db = "ok"
       THEN /\ trackedDomains' =
                 Append(trackedDomains, [id |-> autoInc.domains + 1, userId |-> u,
                                         domain |-> domain, property |-> property])
            /\ autoInc' = [autoInc EXCEPT !.domains = @ + 1]
       ELSE UNCHANGED <<trackedDomains, autoInc>>
    /\ UNCHANGED <<auxVars, now, tokenVars, pageSpeedHistory, domainHistory,
                   keywordHistory, trackedKeywords, syncVars, schedVars>>

\* lines 150-169: domainsRouter.delete removes the row with that id when it
\* is the caller's
DomainsDelete(u, id, db) ==
    /\ trackedDomains' =
          IF u /= 0 /\ db = "ok"
          THEN SelectSeq(trackedDomains, LAMBDA r : ~(r.id = id /\ r.userId = u))
          ELSE trackedDomains
    /\ UNCHANGED <<auxVars, now, tokenVars, pageSpeedHistory, domainHistory,
                   keywordHistory, trackedKeywords, autoInc, syncVars, schedVars>>

\* lines 204-228: keywordsRouter.add inserts whatever (domainId, keyword) it
\* is given
KeywordsAdd(u, domainId, keyword, db) ==
    /\ router.n < MaxRouterCalls
    /\ router' = [router EXCEPT !.n = @ + 1]
    /\ IF u /= 0 /\ db = "ok"
       THEN /\ trackedKeywords' = KeywordInsert(trackedKeywords, autoInc.keywords, u,
                                                domainId, keyword)
            /\ autoInc' = [autoInc EXCEPT !.keywords = @ + 1]
       ELSE UNCHANGED <<trackedKeywords, autoInc>>
    /\ UNCHANGED <<score, xchg, status, csv, ups, batch, manual, now, tokenVars,
                   trackedDomains, pageSpeedHistory, domainHistory, keywordHistory,
                   syncVars, schedVars>>

\* lines 256-275: keywordsRouter.delete removes the row with that id when it
\* is the caller's
KeywordsDelete(u, id, db) ==
    /\ router.n < MaxRouterCalls
    /\ router' = [router EXCEPT !.n = @ + 1]
    /\ trackedKeywords' =
          IF u /= 0 /\ db = "ok"
          THEN SelectSeq(trackedKeywords, LAMBDA r : ~(r.id = id /\ r.userId = u))
          ELSE trackedKeywords
    /\ UNCHANGED <<score, xchg, status, csv, ups, batch, manual, now, tokenVars,
                   trackedDomains, pageSpeedHistory, domainHistory, keywordHistory,
                   autoInc, syncVars, schedVars>>

\* the analyze call once its analyzeAndSavePageSpeed call has taken a step:
\* what that call threw is caught (lines 323-325)
AnalyzeAfterSave(a, s) ==
    IF s.stage /= "done" THEN [a EXCEPT !.save = s]
    ELSE [a EXCEPT !.save = s, !.pc = "done", !.success = s.failed = "none"]

\* lines 302-310: pageSpeedRouter.analyze({url, domainId}) calls
\* fetchPageSpeedInsights(url); domainId = 0 is a call without domainId
PageSpeedAnalyze(url, domainId) ==
    /\ router.n < MaxRouterCalls
    /\ router.analyze.pc \in {"idle", "done"}
    /\ router' = [n |-> router.n + 1,
                  analyze |-> [NoAnalyze EXCEPT !.pc = "fetch", !.url = url,
                                                !.domainId = domainId]]
    /\ UNCHANGED <<score, xchg, status, csv, ups, batch, manual, now, tokenVars,
                   storeVars, syncVars, schedVars>>

\* lines 310-316: the fetch settles; with a domainId the result is thrown
\* away and analyzeAndSavePageSpeed(domainId, url) is called
PageSpeedAnalyzeFetched(ok) ==
    /\ router.analyze.pc = "fetch"
    /\ router' = [router EXCEPT !.analyze =
                    IF ~ok THEN [@ EXCEPT !.pc = "done"]
                    ELSE IF @.domainId = 0 THEN [@ EXCEPT !.pc = "done", !.success = TRUE]
                    ELSE [@ EXCEPT !.pc = "save", !.save = SaveBegin]]
    /\ UNCHANGED <<score, xchg, status, csv, ups, batch, manual, now, tokenVars,
                   storeVars, syncVars, schedVars>>

\* pageSpeedInsights.ts lines 129-132 inside the analyze call: getDb settles
PageSpeedAnalyzeGotDb(db) ==
    /\ router.analyze.pc = "save" /\ router.analyze.save.stage = "getDb"
    /\ router' = [router EXCEPT !.analyze = AnalyzeAfterSave(@, SaveGotDb(@.save, db))]
    /\ UNCHANGED <<score, xchg, status, csv, ups, batch, manual, now, tokenVars,
                   storeVars, syncVars, schedVars>>

\* pageSpeedInsights.ts lines 132-138: the second fetch settles
PageSpeedAnalyzeFetchedAgain(ok) ==
    /\ router.analyze.pc = "save" /\ router.analyze.save.stage = "fetch"
    /\ router' = [router EXCEPT !.analyze =
                    AnalyzeAfterSave(@, SaveFetched(@.save, ok, now))]
    /\ UNCHANGED <<score, xchg, status, csv, ups, batch, manual, now, tokenVars,
                   storeVars, syncVars, schedVars>>

\* pageSpeedInsights.ts lines 135-153: the insert settles
PageSpeedAnalyzeInserted(ok) ==
    /\ router.analyze.pc = "save" /\ router.analyze.save.stage = "insert"
    /\ LET a == router.analyze
       IN  pageSpeedHistory' =
             IF ok THEN InsertRows(pageSpeedHistory, <<SaveRow(a.domainId, a.url, a.save)>>)
             ELSE pageSpeedHistory
    /\ router' = [router EXCEPT !.analyze = AnalyzeAfterSave(@, SaveInserted(@.save, ok))]
    /\ UNCHANGED <<score, xchg, status, csv, ups, batch, manual, now, tokenVars,
                   trackedDomains, domainHistory, keywordHistory, trackedKeywords,
                   autoInc, syncVars, schedVars>>

----------------------------------------------------------------------------
(* The keyword loop of syncSearchConsoleData, one storage call at a time:    *)
(* googleSearchConsole.ts lines 332-368, for calls that run concurrently.    *)

\* syncSearchConsoleData calls whose keyword loops overlap
MaxUpserts == 2
UpsertCalls == 1..MaxUpserts

IdleUpsert ==
    [pc |-> "idle", user |-> 0, domainId |-> 0, rows |-> <<>>, idx |-> 1,
     keywordId |-> 0, date |-> NullTime, written |-> <<>>]

NoUpserts == [p \in UpsertCalls |-> IdleUpsert]

\* lines 281-308: the select of the domains of user u has settled; the call
\* computes endDate (lines 291-292), skips the domains without a property
\* (line 299) and calls fetchSitePerformance for d, the first one configured
KeywordLoopCall(p, u, d) ==
    /\ ups[p].pc = "idle"
    /\ d \in 1..Len(trackedDomains)
    /\ trackedDomains[d].userId = u /\ HasProperty(trackedDomains[d])
    /\ \A e \in 1..(d - 1) :
          trackedDomains[e].userId = u => ~HasProperty(trackedDomains[e])
    /\ ups' = [ups EXCEPT ![p] =
                 [IdleUpsert EXCEPT !.pc = "performance", !.user = u,
                                    !.domainId = trackedDomains[d].id,
                                    !.date = now - DayMs]]
    /\ UNCHANGED <<router, manual, batch, csv, status, score, xchg, now, tokenVars, storeVars, syncVars, schedVars>>

\* lines 303-318: fetchSitePerformance has returned; the insert into
\* domain_history is issued
KeywordLoopPerformance(p) ==
    /\ ups[p].pc = "performance"
    /\ ups' = [ups EXCEPT ![p].pc = "domainHistory"]
    /\ UNCHANGED <<router, manual, batch, csv, status, score, xchg, now, tokenVars, storeVars, syncVars, schedVars>>

\* lines 311-330: the insert into domain_history has settled, with the row
\* dated endDate; fetchSearchAnalytics is called
KeywordLoopDomainHistory(p) ==
    /\ ups[p].pc = "domainHistory"
    /\ domainHistory' =
         InsertRows(domainHistory,
                    <<[domainId |-> ups[p].domainId, date |-> ups[p].date]>>)
    /\ ups' = [ups EXCEPT ![p].pc = "fetch"]
    /\ UNCHANGED <<router, manual, batch, csv, status, score, xchg, now, tokenVars, trackedDomains,
                   pageSpeedHistory, keywordHistory, trackedKeywords, autoInc, syncVars, schedVars>>

\* lines 332-342: fetchSearchAnalytics has returned rows
KeywordLoopBegin(p, rows) ==
    /\ ups[p].pc = "fetch"
    /\ ups' = [ups EXCEPT ![p].pc = IF Len(rows) = 0 THEN "done" ELSE "select",
                          ![p].rows = rows]
    /\ UNCHANGED <<router, manual, batch, csv, status, score, xchg, now, tokenVars, storeVars, syncVars, schedVars>>

\* lines 337-342 and 346, 353-355: the select resolves
KeywordSelect(p) ==
    /\ ups[p].pc = "select"
    /\ LET k == ups[p]
           found == KeywordMatches(trackedKeywords, k.domainId, k.rows[k.idx])
       IN  ups' = [ups EXCEPT ![p] =
                     IF found = {} THEN [k EXCEPT !.pc = "insert"]
                     ELSE [k EXCEPT !.pc = "history",
                                    !.keywordId = trackedKeywords[Min(found)].id]]
    /\ UNCHANGED <<router, manual, batch, csv, status, score, xchg, now, tokenVars, storeVars, syncVars, schedVars>>

\* lines 347-352: insert into tracked_keywords, returning the new row
KeywordInsertStep(p) ==
    /\ ups[p].pc = "insert"
    /\ LET k == ups[p]
       IN  trackedKeywords' = KeywordInsert(trackedKeywords, autoInc.keywords, k.user,
                                            k.domainId, k.rows[k.idx])
    /\ autoInc' = [autoInc EXCEPT !.keywords = @ + 1]
    /\ ups' = [ups EXCEPT ![p].pc = "history", ![p].keywordId = autoInc.keywords + 1]
    /\ UNCHANGED <<router, manual, batch, csv, status, score, xchg, now, tokenVars, trackedDomains,
                   pageSpeedHistory, domainHistory, keywordHistory, syncVars, schedVars>>

\* lines 358-367 and 334: insert into keyword_history, then the next row
KeywordHistoryStep(p) ==
    /\ ups[p].pc = "history"
    /\ LET k == ups[p]
       IN  /\ keywordHistory' =
                 InsertRows(keywordHistory, <<[keywordId |-> k.keywordId, date |-> k.date]>>)
           /\ ups' = [ups EXCEPT ![p] =
                        [k EXCEPT !.written = Append(@, <<k.rows[k.idx], k.keywordId>>),
                                  !.idx = @ + 1,
                                  !.pc = IF k.idx = Len(k.rows) THEN "done"
                                         ELSE "select"]]
    /\ UNCHANGED <<router, manual, batch, csv, status, score, xchg, now, tokenVars, trackedDomains,
                   pageSpeedHistory, domainHistory, trackedKeywords, autoInc, syncVars, schedVars>>

----------------------------------------------------------------------------
(* One batch, one awaited call at a time: the loops of runDailyUpdate        *)
(* (scheduler.ts 71-80 with 91-147), syncSearchConsoleData                   *)
(* (googleSearchConsole.ts 298-373) and syncPageSpeedData                    *)
(* (pageSpeedInsights.ts 177-192 with 125-154).                              *)

BatchKinds == {"runDailyUpdate", "syncSearchConsoleData", "syncPageSpeedData"}

\* the calls a domain's iteration issues together at each await, in order;
\* got holds the results of the domain's calls so far.
\* scheduler.ts lines 96-99, 101, 107-121, 125-139
UpdateStageOps(stage, got) ==
    CASE stage = 1 -> {"fetchMobile", "fetchDesktop"}
      [] stage = 2 -> {"getDb"}
      [] stage = 3 -> IF <<"fetchMobile", "ok">> \in got THEN {"insertMobile"} ELSE {}
      [] stage = 4 -> IF <<"fetchDesktop", "ok">> \in got THEN {"insertDesktop"} ELSE {}
      [] OTHER -> {}

\* googleSearchConsole.ts lines 303, 311, 323, 337, 347, 358; stages 4 to 6
\* are taken once for each row of the feed
SearchConsoleStageOps(stage, got) ==
    CASE stage = 1 -> {"fetchSitePerformance"}
      [] stage = 2 -> {"insertDomainHistory"}
      [] stage = 3 -> {"fetchSearchAnalytics"}
      [] stage = 4 -> {"selectKeyword"}
      [] stage = 5 -> IF <<"selectKeyword", "empty">> \in got
                      THEN {"insertKeyword"} ELSE {}
      [] stage = 6 -> {"insertKeywordHistory"}
      [] OTHER -> {}

\* pageSpeedInsights.ts lines 129, 132, 135 and 188
PageSpeedStageOps(stage, got) ==
    CASE stage = 1 -> {"getDb"}
      [] stage = 2 -> {"fetchPageSpeedInsights"}
      [] stage = 3 -> {"insertPageSpeedHistory"}
      [] stage = 4 -> {"sleep"}
      [] OTHER -> {}

StageOps(kind, stage, got) ==
    IF kind = "runDailyUpdate" THEN UpdateStageOps(stage, got)
    ELSE IF kind = "syncSearchConsoleData" THEN SearchConsoleStageOps(stage, got)
    ELSE PageSpeedStageOps(stage, got)

LastStage(kind) == IF kind = "syncSearchConsoleData" THEN 6 ELSE 4

\* what a call can settle with: fulfilled, rejected, or fulfilled with
\* nothing (a null handle, no rows)
ResultsOf(op) ==
    IF op = "sleep" THEN {"ok"}
    ELSE IF op = "getDb" THEN {"ok", "empty"}
    ELSE IF op \in {"fetchSearchAnalytics", "selectKeyword"} THEN {"ok", "empty", "fail"}
    ELSE {"ok", "fail"}

Swallowed_Never(kind, op) == FALSE

\* scheduler.ts lines 96-99: each fetch of the Promise.all carries its own
\* .catch(() => null)
Swallowed(kind, op) ==
    kind = "runDailyUpdate" /\ op \in {"fetchMobile", "fetchDesktop"}

\* the iteration of the domain ends with this result: a rejection reaches the
\* catch of the iteration (or of updatePageSpeedData), a null handle returns
\* or throws, a feed without rows leaves nothing to do
DomainOver(kind, op, res) ==
    \/ res = "fail" /\ ~Swallowed(kind, op)
    \/ op = "getDb" /\ res = "empty"
    \/ op = "fetchSearchAnalytics" /\ res = "empty"

\* doms is the list the select returned; date is the date the rows of the
\* iteration carry, wake the time the timer of the sleep is due; rows, ridx
\* and keywordId follow the rows of the keyword feed of the domain
NoBatch ==
    [pc |-> "idle", kind |-> "none", user |-> 0, n |-> 0, doms |-> <<>>, idx |-> 1,
     stage |-> 1, out |-> {}, got |-> {}, log |-> <<>>, date |-> NullTime,
     wake |-> NullTime, rows |-> <<>>, ridx |-> 1, keywordId |-> 0]

\* the loop moves to the next domain, or ends after the last one
NextDomain(b) ==
    [b EXCEPT !.idx = @ + 1, !.stage = 1, !.got = {}, !.rows = <<>>, !.ridx = 1,
              !.pc = IF b.idx + 1 > b.n THEN "done" ELSE "issue"]

\* scheduler.ts lines 65-67 select every row; googleSearchConsole.ts line 281
\* and pageSpeedInsights.ts lines 168-170 select the rows of the user
BatchList(kind, u, tbl) ==
    IF kind = "runDailyUpdate" THEN tbl ELSE SelectByUser(tbl, u)

\* the select of the domains has settled and the loop is entered;
\* syncSearchConsoleData computes endDate here (lines 291-292)
BatchBegin(kind, u) ==
    /\ batch.pc = "idle"
    /\ LET list == BatchList(kind, u, trackedDomains)
       IN  batch' = [NoBatch EXCEPT
                       !.kind = kind,
                       !.user = IF kind = "runDailyUpdate" THEN 0 ELSE u,
                       !.doms = list, !.n = Len(list),
                       !.date = IF kind = "syncSearchConsoleData" THEN now - DayMs
                                ELSE NullTime,
                       !.pc = IF Len(list) = 0 THEN "done" ELSE "issue"]
    /\ UNCHANGED <<router, manual, ups, csv, status, score, xchg, now, tokenVars, storeVars, syncVars,
                   schedVars>>

\* the iteration reaches its next await and issues the calls of that stage;
\* the insert of analyzeAndSavePageSpeed takes its date as it is issued
\* (pageSpeedInsights.ts line 138), the sleep is due SleepMs later (line 188)
BatchIssue ==
    /\ batch.pc = "issue"
    /\ LET b == batch
           ops == StageOps(b.kind, b.stage, b.got)
       IN  batch' =
             IF b.kind = "syncSearchConsoleData" /\ ~HasProperty(b.doms[b.idx])
             THEN NextDomain(b)
             ELSE IF b.stage > LastStage(b.kind) THEN NextDomain(b)
             ELSE IF ops = {} THEN [b EXCEPT !.stage = @ + 1]
             ELSE [b EXCEPT !.pc = "await",
                            !.out = @ \cup { <<b.idx, o>> : o \in ops },
                            !.date = IF "insertPageSpeedHistory" \in ops THEN now ELSE @,
                            !.wake = IF "sleep" \in ops THEN now + SleepMs ELSE @,
                            !.log = @ \o <<[ev |-> "issue", dom |-> b.idx, ops |-> ops,
                                         res |-> "none"]>>]
    /\ UNCHANGED <<router, manual, ups, csv, status, score, xchg, now, tokenVars, storeVars, syncVars,
                   schedVars>>

\* the rows of page_speed_history an insert of the batch writes: scheduler.ts
\* lines 108-121 and 126-139, pageSpeedInsights.ts lines 135-152
BatchPageSpeedRows(b, i, op) ==
    LET dom == b.doms[i]
    IN  IF op = "insertMobile"
        THEN <<PageSpeedRow(dom.id, UrlOf(dom.domain) \o MobileSuffix, b.date,
                            SchedulerColumns)>>
        ELSE IF op = "insertDesktop"
        THEN <<PageSpeedRow(dom.id, UrlOf(dom.domain) \o DesktopSuffix, b.date,
                            SchedulerColumns)>>
        ELSE IF op = "insertPageSpeedHistory"
        THEN <<PageSpeedRow(dom.id, UrlOf(dom.domain), b.date, AnalyzeColumns)>>
        ELSE <<>>

\* what the call settles with is one of ResultsOf; the select of the keyword
\* (googleSearchConsole.ts lines 337-342), when it does not reject, gives what
\* the table holds
BatchResult(b, o, res, tbl) ==
    /\ res \in ResultsOf(o[2])
    /\ o[2] = "selectKeyword" /\ res /= "fail"
          => res = IF KeywordMatches(tbl, b.doms[o[1]].id, b.rows[b.ridx]) = {}
                   THEN "empty" ELSE "ok"

\* the rows a keyword feed gives: some when it is fulfilled with rows, none
\* otherwise (and none for every other call)
BatchFeed(op, res, rows) ==
    IF op = "fetchSearchAnalytics" /\ res = "ok" THEN rows /= <<>> ELSE rows = <<>>

\* what the iteration keeps of the result of the call it awaited: the clock
\* read after getDb (scheduler.ts line 104), the rows of the feed (line 332),
\* the id of the keyword (lines 351, 353)
BatchKept(b, op, res, rows, tbl, last, t) ==
    IF res /= "ok" THEN b
    ELSE IF b.kind = "runDailyUpdate" /\ op = "getDb" THEN [b EXCEPT !.date = t]
    ELSE IF op = "fetchSearchAnalytics" THEN [b EXCEPT !.rows = rows, !.ridx = 1]
    ELSE IF op = "selectKeyword"
    THEN [b EXCEPT !.keywordId =
            tbl[Min(KeywordMatches(tbl, b.doms[b.idx].id, b.rows[b.ridx]))].id]
    ELSE IF op = "insertKeyword" THEN [b EXCEPT !.keywordId = last + 1]
    ELSE b

\* the await is over with no call of the stage outstanding: the next await of
\* the iteration, which for a keyword feed is the select of the next row
\* (line 332) until the rows are exhausted
AfterStage(b) ==
    IF b.kind = "syncSearchConsoleData" /\ b.stage = 6 /\ b.ridx < Len(b.rows)
    THEN [b EXCEPT !.ridx = @ + 1, !.stage = 4, !.pc = "issue",
                   !.got = { g \in @ : g[1] \notin {"selectKeyword", "insertKeyword"} }]
    ELSE [b EXCEPT !.stage = @ + 1, !.pc = "issue"]

\* one outstanding call settles: an insert that is fulfilled has written its
\* row, the timer of the sleep fires when the clock is at its due time; the
\* iteration that awaits the call goes on when the await is over: every call of
\* the stage has settled, or the domain is over
BatchSettle(o, res, rows) ==
    /\ o \in batch.out
    /\ BatchResult(batch, o, res, trackedKeywords)
    /\ BatchFeed(o[2], res, rows)
    /\ LET b == [batch EXCEPT
                   !.out = @ \ {o},
                   !.log = @ \o <<[ev |-> "settle", dom |-> o[1], ops |-> {o[2]},
                                res |-> res]>>]
           mine == b.pc = "await" /\ o[1] = b.idx
                   /\ o[2] \in StageOps(b.kind, b.stage, b.got)
           g == BatchKept([b EXCEPT !.got = @ \cup {<<o[2], res>>}], o[2], res, rows,
                          trackedKeywords, autoInc.keywords, now)
           wrote == res = "ok"
       IN  /\ batch' =
                IF ~mine THEN b
                ELSE IF DomainOver(b.kind, o[2], res) THEN NextDomain(g)
                ELSE IF \E q \in g.out : q[1] = g.idx THEN g
                ELSE AfterStage(g)
           /\ pageSpeedHistory' =
                IF wrote THEN InsertRows(pageSpeedHistory, BatchPageSpeedRows(batch, o[1], o[2]))
                ELSE pageSpeedHistory
           /\ domainHistory' =
                IF wrote /\ o[2] = "insertDomainHistory"
                THEN InsertRows(domainHistory,
                                <<[domainId |-> batch.doms[o[1]].id, date |-> batch.date]>>)
                ELSE domainHistory
           /\ trackedKeywords' =
                IF wrote /\ o[2] = "insertKeyword"
                THEN KeywordInsert(trackedKeywords, autoInc.keywords, batch.user,
                                   batch.doms[o[1]].id, batch.rows[batch.ridx])
                ELSE trackedKeywords
           /\ autoInc' =
                IF wrote /\ o[2] = "insertKeyword"
                THEN [autoInc EXCEPT !.keywords = @ + 1] ELSE autoInc
           /\ keywordHistory' =
                IF wrote /\ o[2] = "insertKeywordHistory"
                THEN InsertRows(keywordHistory,
                                <<[keywordId |-> batch.keywordId, date |-> batch.date]>>)
                ELSE keywordHistory
           /\ now' = IF o[2] = "sleep" /\ now < batch.wake THEN batch.wake ELSE now
    /\ UNCHANGED <<router, manual, ups, csv, status, score, xchg, tokenVars, trackedDomains,
                   syncVars, schedVars>>

----------------------------------------------------------------------------
(* CSV exports: routers.ts lines 836-963.  Text is a sequence of characters; *)
(* each Japanese header cell, section title and the marks of a citation are  *)
(* one character here: none of them holds a comma or a line break.           *)

\* bound on the items of one export
MaxItems == 2

Comma == <<",">>
Newline == <<"\n">>

\* Array.prototype.join
RECURSIVE Join(_, _)
Join(parts, sep) ==
    IF Len(parts) = 0 THEN <<>>
    ELSE IF Len(parts) = 1 THEN parts[1]
    ELSE parts[1] \o sep \o Join(Tail(parts), sep)

DigitChars == <<"0", "1", "2", "3", "4", "5", "6", "7", "8", "9">>

\* String(n) of a non-negative integer
RECURSIVE DigitsOf(_)
DigitsOf(n) ==
    IF n < 10 THEN <<DigitChars[n + 1]>>
    ELSE DigitsOf(n \div 10) \o <<DigitChars[(n % 10) + 1]>>

\* String(n) of an integer, as join applies it to a number
NumberToString(n) == IF n < 0 THEN <<"-">> \o DigitsOf(-n) ELSE DigitsOf(n)

\* lines 853, 909 and 947-955: every cell is joined as it is
Cell(text) == text

\* line 853: the header of keywordsToCSV
KeywordHeaders ==
    << <<"[keyword]">>, <<"[searchVolume]">>, <<"[difficulty]">>, <<"[cpc]">>,
       <<"[chatgpt]">>, <<"[perplexity]">>, <<"[gemini]">>, <<"[avgAi]">>,
       <<"[intent]">> >>

\* lines 854-867: one row of keywordsToCSV
KeywordRow(kw) ==
    Join(<< Cell(kw.keyword), NumberToString(kw.searchVolume),
            NumberToString(kw.keywordDifficulty), NumberToString(kw.cpc),
            NumberToString(kw.chatgpt), NumberToString(kw.perplexity),
            NumberToString(kw.gemini),
            NumberToString(RoundThird(kw.chatgpt + kw.perplexity + kw.gemini)),
            Cell(kw.intent) >>, Comma)

\* lines 852-870
keywordsToCSV(keywords) ==
    Join(<<Join(KeywordHeaders, Comma)>>
         \o [i \in 1..Len(keywords) |-> KeywordRow(keywords[i])], Newline)

\* lines 893-904: the summary table of domainToCSV
SummaryHeaders == << <<"[metric]">>, <<"[value]">> >>
SummaryRows(in) ==
    << << <<"[domain]">>, Cell(in.domain) >>,
       << <<"[domainRating]">>, NumberToString(in.domainRating) >>,
       << <<"[organicTraffic]">>, NumberToString(in.organicTraffic) >>,
       << <<"[backlinks]">>, NumberToString(in.backlinks) >>,
       << <<"[referringDomains]">>, NumberToString(in.referringDomains) >>,
       << <<"[aiReadability]">>, NumberToString(in.aiReadabilityScore) >>,
       << <<"[semanticHtml]">>, NumberToString(in.semanticHtmlScore) >>,
       << <<"[schemaOrg]">>, NumberToString(in.schemaOrgScore) >>,
       << <<"[contentClarity]">>, NumberToString(in.contentClarityScore) >> >>

\* lines 907-914: the backlink table of domainToCSV
BacklinkHeaders ==
    << <<"[sourceDomain]">>, <<"[targetUrl]">>, <<"[anchorText]">>, <<"[DR]">>,
       <<"[type]">> >>
BacklinkRow(bl) ==
    Join(<< Cell(bl.sourceDomain), Cell(bl.targetUrl), Cell(bl.anchorText),
            NumberToString(bl.domainRating),
            IF bl.doFollow THEN <<"D", "o", "F", "o", "l", "l", "o", "w">>
            ELSE <<"N", "o", "F", "o", "l", "l", "o", "w">> >>, Comma)

\* lines 891-926
domainToCSV(in) ==
    LET rows == SummaryRows(in) IN
    Join(<< <<"[=== summary ===]">>, Join(SummaryHeaders, Comma) >>
         \o [i \in 1..Len(rows) |-> Join(rows[i], Comma)]
         \o << <<>>, <<"[=== top backlinks ===]">>, Join(BacklinkHeaders, Comma) >>
         \o [i \in 1..Len(in.topBacklinks) |-> BacklinkRow(in.topBacklinks[i])],
         Newline)

\* line 946: the header of rankingsToCSV
RankingHeaders ==
    << <<"[keyword]">>, <<"[googleRank]">>, <<"[rankChange]">>, <<"[chatgpt]">>,
       <<"[perplexity]">>, <<"[gemini]">>, <<"[sentiment]">>, <<"[url]">>,
       <<"[lastUpdated]">> >>

\* lines 951-953: the mark of a citation
Mark(b) == IF b THEN <<"[cited]">> ELSE <<"[not cited]">>

\* lines 947-957: one row of rankingsToCSV
RankingRow(r) ==
    Join(<< Cell(r.keyword), NumberToString(r.googleRank),
            IF r.googleRankChange > 0
            THEN <<"+">> \o NumberToString(r.googleRankChange)
            ELSE NumberToString(r.googleRankChange),
            Mark(r.chatgpt), Mark(r.perplexity), Mark(r.gemini),
            Cell(r.aiSentiment), Cell(r.url), Cell(r.lastUpdated) >>, Comma)

\* lines 945-962
rankingsToCSV(rankings) ==
    Join(<<Join(RankingHeaders, Comma)>>
         \o [i \in 1..Len(rankings) |-> RankingRow(rankings[i])], Newline)

\* text fields of the inputs: plain, with a comma, with a line break
Texts == { <<"s", "e", "o">>, <<"a", ",", "b">>, <<"a", "\n", "b">> }
PlainText == <<"s", "e", "o">>

SeqsUpTo(S, n) == UNION { [1..k -> S] : k \in 0..n }

KeywordItems ==
    [keyword : Texts, searchVolume : {0, 12500}, keywordDifficulty : {45},
     cpc : {3}, chatgpt : {85}, perplexity : {72, 73}, gemini : {68},
     intent : {PlainText}]

BacklinkItems ==
    [sourceDomain : {PlainText}, targetUrl : {PlainText, <<"/", "a", ",", "b">>},
     anchorText : Texts, domainRating : {91}, doFollow : BOOLEAN]

DomainInputs ==
    [domain : Texts, domainRating : {72}, organicTraffic : {125000},
     backlinks : {4500}, referringDomains : {890}, aiReadabilityScore : {85},
     semanticHtmlScore : {90}, schemaOrgScore : {0}, contentClarityScore : {88},
     topBacklinks : SeqsUpTo(BacklinkItems, MaxItems - 1)]

RankingItems ==
    [keyword : Texts, googleRank : {3}, googleRankChange : {-3, 0, 2},
     chatgpt : BOOLEAN, perplexity : {TRUE}, gemini : {FALSE},
     aiSentiment : {PlainText}, url : {<<"/", "t">>},
     lastUpdated : {<<"2", "0", "2", "4">>}]

NoDomainInput ==
    [domain : {<<>>}, domainRating : {0}, organicTraffic : {0}, backlinks : {0},
     referringDomains : {0}, aiReadabilityScore : {0}, semanticHtmlScore : {0},
     schemaOrgScore : {0}, contentClarityScore : {0}, topBacklinks : {<<>>}]

NoCsv ==
    [pc |-> "idle", op |-> "none", keywords |-> <<>>, rankings |-> <<>>,
     domain |-> CHOOSE d \in NoDomainInput : TRUE, out |-> <<>>]

\* the export calls followed: one operation on one input
CsvCalls ==
    { [NoCsv EXCEPT !.pc = "called", !.op = "keywords", !.keywords = k] :
        k \in SeqsUpTo(KeywordItems, MaxItems) }
    \cup { [NoCsv EXCEPT !.pc = "called", !.op = "rankings", !.rankings = r] :
             r \in SeqsUpTo(RankingItems, MaxItems) }
    \cup { [NoCsv EXCEPT !.pc = "called", !.op = "domain", !.domain = d] :
             d \in DomainInputs }

KeywordsToCSV ==
    /\ csv.pc = "called" /\ csv.op = "keywords"
    /\ csv' = [csv EXCEPT !.pc = "returned", !.out = keywordsToCSV(csv.keywords)]
    /\ UNCHANGED <<router, manual, batch, ups, status, score, xchg, now, tokenVars, storeVars, syncVars, schedVars>>

DomainToCSV ==
    /\ csv.pc = "called" /\ csv.op = "domain"
    /\ csv' = [csv EXCEPT !.pc = "returned", !.out = domainToCSV(csv.domain)]
    /\ UNCHANGED <<router, manual, batch, ups, status, score, xchg, now, tokenVars, storeVars, syncVars, schedVars>>

RankingsToCSV ==
    /\ csv.pc = "called" /\ csv.op = "rankings"
    /\ csv' = [csv EXCEPT !.pc = "returned", !.out = rankingsToCSV(csv.rankings)]
    /\ UNCHANGED <<router, manual, batch, ups, status, score, xchg, now, tokenVars, storeVars, syncVars, schedVars>>

\* no exchange, getStatus, keyword loop or batch has been followed yet
CallsInit ==
    /\ router = NoRouter
    /\ manual = NoManual
    /\ xchg = NoExchange
    /\ status = NoStatus
    /\ ups = NoUpserts
    /\ batch = NoBatch

AuxInit ==
    /\ score = NoScore
    /\ csv = NoCsv
    /\ CallsInit

----------------------------------------------------------------------------
(* Specifications *)

\* responses to a refresh_token grant that carry no new refresh token
RefreshResponses == {r \in TokenResponses : r.refresh_token = Null}

InitToken ==
    /\ now = 0
    /\ users \in [UserIds -> InitRows]
    /\ tcall = [c \in TokCalls |-> IdleCall]
    /\ trackedDomains = <<>>
    /\ StoreEmpty
    /\ SyncInit
    /\ SchedulerInit
    /\ AuxInit

NextToken ==
    \/ \E c \in TokCalls, u \in UserIds, db \in DbStatus : GetValidAccessTokenBegin(c, u, db)
    \/ \E c \in TokCalls, o \in RefreshOutcomes, r \in RefreshResponses :
          GetValidAccessTokenRefresh(c, o, r)
    \/ \E c \in TokCalls, db \in {"ok", "error"} : GetValidAccessTokenPersist(c, db)
    \/ \E c \in TokCalls : GetValidAccessTokenReturn(c)
    \/ Tick

SpecToken == InitToken /\ [][NextToken]_vars

\* the OAuth code exchange, and the calls of getValidAccessToken around it,
\* for users never connected or connected without a cached access token
ConnectRows ==
    [present : {TRUE}, access : {Null}, refresh : {Null, "r1"}, expiry : {NullTime}]

\* responses to the code exchange: access token a1 for one second, with or
\* without refresh token; responses to a refresh: a2 for two seconds
ExchangeResponses ==
    { r \in TokenResponses : r.access_token = "a1" /\ r.expires_in = 1 }
ConnectRefreshResponses ==
    { r \in TokenResponses : r.access_token = "a2" /\ r.expires_in = 2 }

InitConnect ==
    /\ now = 0
    /\ users \in [UserIds -> ConnectRows]
    /\ tcall = [c \in TokCalls |-> IdleCall]
    /\ trackedDomains = <<>>
    /\ StoreEmpty
    /\ SyncInit
    /\ SchedulerInit
    /\ AuxInit

NextConnect ==
    \/ \E u \in UserIds \cup {0}, configured \in BOOLEAN : ExchangeCodeBegin(u, configured)
    \/ \E outcome \in {"ok", "http_error"}, resp \in ExchangeResponses,
          db \in {"ok", "unavailable"} : ExchangeCodeResponse(outcome, resp, db)
    \/ \E db \in {"ok", "error"} : ExchangeCodePersist(db)
    \/ \E c \in TokCalls, u \in UserIds : GetValidAccessTokenBegin(c, u, "ok")
    \/ \E c \in TokCalls, r \in ConnectRefreshResponses :
            GetValidAccessTokenRefresh(c, "ok", r)
    \/ \E c \in TokCalls : GetValidAccessTokenPersist(c, "ok")
    \/ Tick

SpecConnect == InitConnect /\ [][NextConnect]_vars


\* getStatus in every state of the scheduler: start, stop, both timers
\* (the table of domains is empty, so a run ends when its select has settled)
\* and the clock
InitStatus ==
    /\ now = 0
    /\ users = [u \in UserIds |-> NoRow]
    /\ tcall = [c \in TokCalls |-> IdleCall]
    /\ trackedDomains = <<>>
    /\ StoreEmpty
    /\ SyncInit
    /\ SchedulerInit
    /\ AuxInit

NextStatus ==
    \/ Start
    \/ Stop
    \/ \E r \in RunIds : TimeoutFire(r)
    \/ \E t \in 1..MaxStarts, r \in RunIds : IntervalFire(t, r)
    \/ \E r \in RunIds, db \in {"ok", "unavailable"} : RunDailyUpdateGotDb(r, db)
    \/ \E r \in RunIds, ok \in BOOLEAN : RunDailyUpdateSelected(r, ok)
    \/ GetStatus
    \/ Tick

SpecStatus == InitStatus /\ [][NextStatus]_vars


\* the three CSV exports, each applied to every input of CsvCalls
InitCsv ==
    /\ now = 0
    /\ users = [u \in UserIds |-> NoRow]
    /\ tcall = [c \in TokCalls |-> IdleCall]
    /\ trackedDomains = <<>>
    /\ StoreEmpty
    /\ SyncInit
    /\ SchedulerInit
    /\ score = NoScore
    /\ csv \in CsvCalls
    /\ CallsInit

NextCsv == KeywordsToCSV \/ DomainToCSV \/ RankingsToCSV

SpecCsv == InitCsv /\ [][NextCsv]_vars


\* calls of getValidAccessToken that overlap: one more call than SpecToken
\* follows, every user connected with a token that has expired
RaceCalls == 1..(MaxTokCalls + 1)

ExpiredRow == [present |-> TRUE, access |-> "a0", refresh |-> "r1", expiry |-> 0]

InitRace ==
    /\ now = 0
    /\ users = [u \in UserIds |-> ExpiredRow]
    /\ tcall = [c \in RaceCalls |-> IdleCall]
    /\ trackedDomains = <<>>
    /\ StoreEmpty
    /\ SyncInit
    /\ SchedulerInit
    /\ AuxInit

NextRace ==
    \/ \E c \in RaceCalls, u \in UserIds : GetValidAccessTokenBegin(c, u, "ok")
    \/ \E c \in RaceCalls, r \in RefreshResponses :
            GetValidAccessTokenRefresh(c, "ok", r)
    \/ \E c \in RaceCalls : GetValidAccessTokenPersist(c, "ok")
    \/ Tick

SpecRace == InitRace /\ [][NextRace]_vars


\* the scheduler over a table of tracked domains of all users, each with a
\* configured property
NameOf(i) ==
    IF i % 2 = 1 THEN <<"a", ".", "i", "o">> ELSE <<"h", "t", "t", "p", ":", "/", "/", "b">>

SchedTables ==
    { t \in DomainTables :
        \A i \in 1..Len(t) : /\ t[i].property = "sc-domain:a"
                              /\ t[i].userId = ((i - 1) % MaxUsers) + 1
                              /\ t[i].domain = NameOf(i) }

\* a credential as exchangeCode leaves it, its access token not yet expired
ConnectedRow == [present |-> TRUE, access |-> "a0", refresh |-> "r1", expiry |-> TickMs]

\* the first invocation of runDailyUpdate is followed; invocations that
\* overlap are followed under SpecOverlap and SpecRecur
FollowedRuns == {1}

\* a followed run has been called and its select has not settled: the router
\* calls that change tracked_domains are followed while this holds, since a
\* run iterates the rows its select returned
Loading == \E r \in FollowedRuns : runs[r].pc \in {"getDb", "select"}

InitSched ==
    /\ now = 0
    /\ users = [u \in UserIds |-> ConnectedRow]
    /\ tcall = [c \in TokCalls |-> IdleCall]
    /\ trackedDomains \in SchedTables
    /\ StoreEmpty
    /\ SyncInit
    /\ SchedulerInit
    /\ AuxInit

NextSched ==
    \/ Start
    \/ Stop
    \/ \E r \in FollowedRuns : TimeoutFire(r)
    \/ \E t \in 1..MaxStarts, r \in FollowedRuns : IntervalFire(t, r)
    \/ \E r \in FollowedRuns, db \in {"ok", "unavailable"} : RunDailyUpdateGotDb(r, db)
    \/ \E r \in FollowedRuns, ok \in BOOLEAN : RunDailyUpdateSelected(r, ok)
    \/ \E r \in FollowedRuns, mobileOk \in BOOLEAN, desktopOk \in BOOLEAN :
            RunFetched(r, mobileOk, desktopOk)
    \/ \E r \in FollowedRuns, db \in {"ok", "unavailable"} : RunGotDb(r, db)
    \/ \E r \in FollowedRuns, ok \in BOOLEAN : RunInserted(r, ok)
    \/ \E r \in FollowedRuns : RunDailyUpdate(r)
    \/ \E u \in UserIds :
          Loading /\ DomainsAdd(u, NameOf(autoInc.domains + 1), Null, "ok")
    \/ \E u \in UserIds, id \in 1..MaxDomains : Loading /\ DomainsDelete(u, id, "ok")

SpecSched == InitSched /\ [][NextSched]_vars

\* the two sync flows over the domains of the users
SyncTables ==
    { t \in DomainTables :
        \A i \in 1..Len(t) : /\ t[i].userId = ((i - 1) % MaxUsers) + 1
                              /\ t[i].domain = NameOf(i) }

InitSync ==
    /\ now = 0
    /\ users \in [UserIds -> InitRows]
    /\ tcall = [c \in TokCalls |-> IdleCall]
    /\ trackedDomains \in SyncTables
    /\ StoreEmpty
    /\ SyncInit
    /\ SchedulerInit
    /\ AuxInit

NextSync ==
    \/ \E u \in UserIds, db \in {"ok", "unavailable"}, tokDb \in DbStatus :
          SyncSearchConsoleBegin(u, db, tokDb)
    \/ \E o \in RefreshOutcomes, r \in RefreshResponses : SyncSearchConsoleRefresh(o, r)
    \/ \E db \in {"ok", "error"} : SyncSearchConsolePersist(db)
    \/ \E list \in {"ok", "error"} : SyncSearchConsoleList(list)
    \/ Tick
    \/ \E ok \in BOOLEAN : SyncSearchConsolePerformance(ok)
    \/ \E ok \in BOOLEAN : SyncSearchConsoleDomainHistory(ok)
    \/ \E ok \in BOOLEAN, rows \in Feeds : SyncSearchConsoleAnalytics(ok, rows)
    \/ \E ok \in BOOLEAN : SyncSearchConsoleKeywordSelect(ok)
    \/ \E ok \in BOOLEAN : SyncSearchConsoleKeywordInsert(ok)
    \/ \E ok \in BOOLEAN : SyncSearchConsoleKeywordHistory(ok)
    \/ \E u \in UserIds, db \in {"ok", "unavailable"}, list \in {"ok", "error"} :
          SyncPageSpeedBegin(u, db, list)
    \/ \E db \in {"ok", "unavailable"} : SyncPageSpeedGetDb(db)
    \/ \E ok \in BOOLEAN : SyncPageSpeedFetched(ok)
    \/ \E ok \in BOOLEAN : SyncPageSpeedInserted(ok)
    \/ SyncPageSpeedWake

SpecSync == InitSync /\ [][NextSync]_vars

\* repeated calls of syncSearchConsoleData by users whose cached token is
\* valid, every tracked domain having a configured property, while domains
\* are added and deleted through the router; the calls to the API and the
\* storage calls of the sync succeed
RepeatTables ==
    { t \in SyncTables : \A i \in 1..Len(t) : t[i].property = "sc-domain:a" }

\* the feeds of at most one row
RepeatFeeds == { f \in Feeds : Len(f) <= 1 }

InitRepeat ==
    /\ now = 0
    /\ users = [u \in UserIds |->
                  [present |-> TRUE, access |-> "a0", refresh |-> "r1", expiry |-> TickMs]]
    /\ tcall = [c \in TokCalls |-> IdleCall]
    /\ trackedDomains \in { t \in RepeatTables : Len(t) = 1 }
    /\ StoreEmpty
    /\ SyncInit
    /\ SchedulerInit
    /\ AuxInit

NextRepeat ==
    \/ \E u \in UserIds : SyncSearchConsoleBegin(u, "ok", "ok")
    \/ SyncSearchConsoleList("ok")
    \/ SyncSearchConsolePerformance(TRUE)
    \/ SyncSearchConsoleDomainHistory(TRUE)
    \/ \E rows \in RepeatFeeds : SyncSearchConsoleAnalytics(TRUE, rows)
    \/ SyncSearchConsoleKeywordSelect(TRUE)
    \/ SyncSearchConsoleKeywordInsert(TRUE)
    \/ SyncSearchConsoleKeywordHistory(TRUE)
    \/ SyncSearchConsoleReturn
    \/ \E u \in UserIds, db \in {"ok", "unavailable"} :
          DomainsAdd(u, NameOf(autoInc.domains + 1), "sc-domain:a", db)
    \/ \E u \in UserIds, id \in 1..MaxDomains : DomainsDelete(u, id, "ok")

SpecRepeat == InitRepeat /\ [][NextRepeat]_vars

\* keyword loops of syncSearchConsoleData calls that overlap, over configured
\* domains and an empty tracked_keywords table
InitUpsert ==
    /\ now = 0
    /\ users = [u \in UserIds |-> ExpiredRow]
    /\ tcall = [c \in TokCalls |-> IdleCall]
    /\ trackedDomains \in { t \in RepeatTables : Len(t) = 1 }
    /\ StoreEmpty
    /\ SyncInit
    /\ SchedulerInit
    /\ AuxInit

NextUpsert ==
    \/ \E p \in UpsertCalls, u \in UserIds, d \in 1..MaxDomains : KeywordLoopCall(p, u, d)
    \/ \E p \in UpsertCalls : KeywordLoopPerformance(p)
    \/ \E p \in UpsertCalls : KeywordLoopDomainHistory(p)
    \/ \E p \in UpsertCalls, rows \in Feeds : KeywordLoopBegin(p, rows)
    \/ Tick
    \/ \E p \in UpsertCalls : KeywordSelect(p)
    \/ \E p \in UpsertCalls : KeywordInsertStep(p)
    \/ \E p \in UpsertCalls : KeywordHistoryStep(p)
    \/ \E u \in UserIds \cup {0}, domainId \in 1..MaxDomains, keyword \in Keywords,
          db \in {"ok", "unavailable"} : KeywordsAdd(u, domainId, keyword, db)
    \/ \E u \in UserIds \cup {0}, id \in 1..(2 * MaxUpserts), db \in {"ok", "unavailable"} :
          KeywordsDelete(u, id, db)

SpecUpsert == InitUpsert /\ [][NextUpsert]_vars


\* the scheduler with one more invocation of runDailyUpdate than SpecSched
\* follows, so that a timer can fire while a batch is in progress
OverlapRuns == 1..(MaxRuns + 1)

InitOverlap ==
    /\ now = 0
    /\ users = [u \in UserIds |-> NoRow]
    /\ tcall = [c \in TokCalls |-> IdleCall]
    /\ trackedDomains \in { t \in SchedTables : Len(t) >= 1 }
    /\ StoreEmpty
    /\ SyncInit
    /\ isRunning = FALSE
    /\ intervalId = 0
    /\ intervals = {}
    /\ timeouts = 0
    /\ timerSeq = 0
    /\ nStart = 0
    /\ runs = [r \in OverlapRuns |-> IdleRun]
    /\ AuxInit

NextOverlap ==
    \/ Start
    \/ Stop
    \/ \E r \in OverlapRuns : TimeoutFire(r)
    \/ \E t \in 1..MaxStarts, r \in OverlapRuns : IntervalFire(t, r)
    \/ \E r \in OverlapRuns : RunDailyUpdateGotDb(r, "ok")
    \/ \E r \in OverlapRuns : RunDailyUpdateSelected(r, TRUE)
    \/ \E r \in OverlapRuns, mobileOk \in BOOLEAN, desktopOk \in BOOLEAN :
            RunFetched(r, mobileOk, desktopOk)
    \/ \E r \in OverlapRuns, db \in {"ok", "unavailable"} : RunGotDb(r, db)
    \/ \E r \in OverlapRuns, ok \in BOOLEAN : RunInserted(r, ok)

SpecOverlap == InitOverlap /\ [][NextOverlap]_vars

\* one batch of each kind over every number of domains
BatchOps ==
    UNION { StageOps(k, st, g) :
              k \in BatchKinds, st \in 1..6,
              g \in { {}, {<<"fetchMobile", "ok">>, <<"fetchDesktop", "ok">>},
                       {<<"selectKeyword", "empty">>} } }

\* tables whose rows belong to the users in turn, with or without a configured
\* property
BatchTables ==
    { t \in DomainTables :
        \A i \in 1..Len(t) : /\ t[i].property \in {Null, "sc-domain:a"}
                              /\ t[i].userId = ((i - 1) % MaxUsers) + 1
                              /\ t[i].domain = NameOf(i) }

InitBatch ==
    /\ now = 0
    /\ users = [u \in UserIds |-> NoRow]
    /\ tcall = [c \in TokCalls |-> IdleCall]
    /\ trackedDomains \in BatchTables
    /\ StoreEmpty
    /\ SyncInit
    /\ SchedulerInit
    /\ AuxInit

NextBatch ==
    \/ \E k \in BatchKinds, u \in UserIds : BatchBegin(k, u)
    \/ BatchIssue
    \/ \E d \in 1..MaxDomains, op \in BatchOps, res \in {"ok", "empty", "fail"},
          rows \in Feeds : BatchSettle(<<d, op>>, res, rows)

SpecBatch == InitBatch /\ [][NextBatch]_vars

\* runs that fail, and the fires that follow them: one tracked domain, one
\* more invocation of runDailyUpdate than SpecSched follows
InitRecur ==
    /\ now = 0
    /\ users = [u \in UserIds |-> NoRow]
    /\ tcall = [c \in TokCalls |-> IdleCall]
    /\ trackedDomains \in { t \in SchedTables : Len(t) = 1 }
    /\ StoreEmpty
    /\ SyncInit
    /\ isRunning = FALSE
    /\ intervalId = 0
    /\ intervals = {}
    /\ timeouts = 0
    /\ timerSeq = 0
    /\ nStart = 0
    /\ runs = [r \in OverlapRuns |-> IdleRun]
    /\ AuxInit

NextRecur ==
    \/ Start
    \/ Stop
    \/ \E r \in OverlapRuns : TimeoutFire(r)
    \/ \E t \in 1..MaxStarts, r \in OverlapRuns : IntervalFire(t, r)
    \/ \E r \in OverlapRuns, db \in {"ok", "unavailable"} : RunDailyUpdateGotDb(r, db)
    \/ \E r \in OverlapRuns, ok \in BOOLEAN : RunDailyUpdateSelected(r, ok)
    \/ \E r \in OverlapRuns, mobileOk \in BOOLEAN, desktopOk \in BOOLEAN :
            RunFetched(r, mobileOk, desktopOk)
    \/ \E r \in OverlapRuns, db \in {"ok", "unavailable"} : RunGotDb(r, db)
    \/ \E r \in OverlapRuns, ok \in BOOLEAN : RunInserted(r, ok)

SpecRecur == InitRecur /\ [][NextRecur]_vars

\* the scheduler's public operations in any order, with the timer fires;
\* no domain is tracked, so a run ends when it has listed the domains
InitManual ==
    /\ now = 0
    /\ users = [u \in UserIds |-> NoRow]
    /\ tcall = [c \in TokCalls |-> IdleCall]
    /\ trackedDomains = <<>>
    /\ StoreEmpty
    /\ SyncInit
    /\ SchedulerInit
    /\ AuxInit

NextManual ==
    \/ Start
    \/ Stop
    \/ \E r \in FollowedRuns : TimeoutFire(r)
    \/ \E t \in 1..MaxStarts, r \in FollowedRuns : IntervalFire(t, r)
    \/ \E r \in FollowedRuns, db \in {"ok", "unavailable"} : RunDailyUpdateGotDb(r, db)
    \/ \E r \in FollowedRuns, ok \in BOOLEAN : RunDailyUpdateSelected(r, ok)
    \/ \E r \in FollowedRuns : RunDailyUpdate(r)
    \/ GetStatus
    \/ \E domainId \in 1..MaxDomains : ManualUpdate(NameOf(domainId), domainId)
    \/ \E mobileOk \in BOOLEAN, desktopOk \in BOOLEAN : ManualFetched(mobileOk, desktopOk)
    \/ \E db \in {"ok", "unavailable"} : ManualGotDb(db)
    \/ \E ok \in BOOLEAN : ManualInserted(ok)

SpecManual == InitManual /\ [][NextManual]_vars

\* the writers of pagespeed_history side by side: repeated syncPageSpeedData
\* calls, pageSpeedRouter.analyze and the scheduler's per-domain update
AnalyzeUrls == { UrlOf(n) : n \in DomainNames }

InitAnalyze ==
    /\ now = 0
    /\ users = [u \in UserIds |-> NoRow]
    /\ tcall = [c \in TokCalls |-> IdleCall]
    /\ trackedDomains \in { t \in SchedTables : Len(t) = 1 }
    /\ StoreEmpty
    /\ SyncInit
    /\ SchedulerInit
    /\ AuxInit

NextAnalyze ==
    \/ \E u \in UserIds : SyncPageSpeedBegin(u, "ok", "ok")
    \/ \E db \in {"ok", "unavailable"} : SyncPageSpeedGetDb(db)
    \/ \E ok \in BOOLEAN : SyncPageSpeedFetched(ok)
    \/ \E ok \in BOOLEAN : SyncPageSpeedInserted(ok)
    \/ SyncPageSpeedWake
    \/ SyncPageSpeedReturn
    \/ Tick
    \/ \E url \in AnalyzeUrls, domainId \in 0..MaxDomains : PageSpeedAnalyze(url, domainId)
    \/ \E ok \in BOOLEAN : PageSpeedAnalyzeFetched(ok)
    \/ \E db \in {"ok", "unavailable"} : PageSpeedAnalyzeGotDb(db)
    \/ \E ok \in BOOLEAN : PageSpeedAnalyzeFetchedAgain(ok)
    \/ \E ok \in BOOLEAN : PageSpeedAnalyzeInserted(ok)
    \/ \E domainId \in 1..MaxDomains : ManualUpdate(NameOf(domainId), domainId)
    \/ \E mobileOk \in BOOLEAN, desktopOk \in BOOLEAN : ManualFetched(mobileOk, desktopOk)
    \/ \E db \in {"ok", "unavailable"} : ManualGotDb(db)
    \/ \E ok \in BOOLEAN : ManualInserted(ok)

SpecAnalyze == InitAnalyze /\ [][NextAnalyze]_vars

\* the operations of the subsystem on one store, in any sequence: the
\* scheduler (start, stop, the timers, runDailyUpdate, manualUpdate), the token
\* manager (getValidAccessToken on its own, exchangeCode with saveGoogleTokens)
\* and the two sync flows, called again after they return; the routers are not
\* among them

\* bound on the calls of runDailyUpdate, manualUpdate, exchangeCode and the two
\* sync flows followed in one behaviour
MaxCalls == 2

\* the calls followed so far
Called ==
    gsync.round + psync.round + manual.n + xchg.n
      + Cardinality({ r \in RunIds : runs[r].pc /= "idle" })

\* an operation has been called and has not returned
InProgress ==
    \/ \E c \in TokCalls : tcall[c].pc /= "idle"
    \/ xchg.pc \in {"fetch", "update"}
    \/ gsync.pc /= "idle" \/ psync.pc /= "idle"
    \/ \E r \in RunIds : runs[r].pc \in {"getDb", "select", "loop"}
    \/ manual.upd.stage \notin {"none", "done"}

\* no further call is followed now
Busy == InProgress \/ Called >= MaxCalls

\* the call of getValidAccessToken on its own that is followed
FollowedCalls == {1}

\* the sync of page performance stands at its sleep: the clock is followed while
\* it does
Sleeping == psync.pc = "loop" /\ psync.step = "sleep"

InitAppend ==
    /\ now = 0
    /\ users = [u \in UserIds |-> ExpiredRow]
    /\ tcall = [c \in TokCalls |-> IdleCall]
    /\ trackedDomains \in { t \in RepeatTables : Len(t) = 1 }
    /\ StoreEmpty
    /\ SyncInit
    /\ SchedulerInit
    /\ AuxInit

NextAppend ==
    \/ ~InProgress /\ Start
    \/ ~InProgress /\ Stop
    \/ \E r \in FollowedRuns : ~Busy /\ TimeoutFire(r)
    \/ \E t \in 1..MaxStarts, r \in FollowedRuns : ~Busy /\ IntervalFire(t, r)
    \/ \E r \in FollowedRuns : RunDailyUpdateGotDb(r, "ok")
    \/ \E r \in FollowedRuns : RunDailyUpdateSelected(r, TRUE)
    \/ \E r \in FollowedRuns, mobileOk \in BOOLEAN : RunFetched(r, mobileOk, TRUE)
    \/ \E r \in FollowedRuns : RunGotDb(r, "ok")
    \/ \E r \in FollowedRuns, ok \in BOOLEAN : RunInserted(r, ok)
    \/ \E domainId \in 1..MaxDomains :
          ~Busy /\ domainId <= Len(trackedDomains)
                /\ ManualUpdate(NameOf(domainId), domainId)
    \/ \E desktopOk \in BOOLEAN : ManualFetched(TRUE, desktopOk)
    \/ ManualGotDb("ok")
    \/ \E ok \in BOOLEAN : ManualInserted(ok)
    \/ \E c \in FollowedCalls, u \in UserIds : ~InProgress /\ GetValidAccessTokenBegin(c, u, "ok")
    \/ \E c \in FollowedCalls, o \in {"ok", "http_error"}, r \in ConnectRefreshResponses :
          GetValidAccessTokenRefresh(c, o, r)
    \/ \E c \in FollowedCalls : GetValidAccessTokenPersist(c, "ok")
    \/ \E c \in FollowedCalls : GetValidAccessTokenReturn(c)
    \/ \E u \in UserIds : ~Busy /\ ExchangeCodeBegin(u, TRUE)
    \/ \E resp \in ExchangeResponses : ExchangeCodeResponse("ok", resp, "ok")
    \/ ExchangeCodePersist("ok")
    \/ \E u \in UserIds : ~Busy /\ SyncSearchConsoleBegin(u, "ok", "ok")
    \/ \E r \in ConnectRefreshResponses : SyncSearchConsoleRefresh("ok", r)
    \/ SyncSearchConsolePersist("ok")
    \/ SyncSearchConsoleList("ok")
    \/ SyncSearchConsolePerformance(TRUE)
    \/ \E ok \in BOOLEAN : SyncSearchConsoleDomainHistory(ok)
    \/ \E rows \in RepeatFeeds : SyncSearchConsoleAnalytics(TRUE, rows)
    \/ SyncSearchConsoleKeywordSelect(TRUE)
    \/ SyncSearchConsoleKeywordInsert(TRUE)
    \/ \E ok \in BOOLEAN : SyncSearchConsoleKeywordHistory(ok)
    \/ SyncSearchConsoleReturn
    \/ \E u \in UserIds : ~Busy /\ SyncPageSpeedBegin(u, "ok", "ok")
    \/ SyncPageSpeedGetDb("ok")
    \/ SyncPageSpeedFetched(TRUE)
    \/ \E ok \in BOOLEAN : SyncPageSpeedInserted(ok)
    \/ SyncPageSpeedWake
    \/ SyncPageSpeedReturn
    \/ Sleeping /\ Tick

SpecAppend == InitAppend /\ [][NextAppend]_vars

\* calculateAIReadabilityScore applied to every sample of Metrics
InitScore ==
    /\ now = 0
    /\ users = [u \in UserIds |-> NoRow]
    /\ tcall = [c \in TokCalls |-> IdleCall]
    /\ trackedDomains = <<>>
    /\ StoreEmpty
    /\ SyncInit
    /\ SchedulerInit
    /\ score \in [pc : {"called"}, metrics : Metrics,
                  result : {calculateAIReadabilityScore(NoMetrics)}]
    /\ csv = NoCsv
    /\ CallsInit

NextScore == CalculateAIReadabilityScore

SpecScore == InitScore /\ [][NextScore]_vars

----------------------------------------------------------------------------
(* Claims about getValidAccessToken, checked under SpecToken *)

\* the row the call read shows a connected user: a row with a refresh token
SnapConnected(k) ==
    k.looked /\ k.snap.present /\ k.snap.refresh /= Null /\ k.snap.refresh /= ""

\* the row the call read holds an access token whose expiry is after the read
SnapFresh(k) ==
    /\ k.snap.access /= Null /\ k.snap.access /= ""
    /\ k.snap.expiry /= NullTime /\ k.snap.expiry > k.readAt

\* C1: a call that read a connected user's row with a cached access token
\* whose expiry is strictly after now returns that token, has made no call
\* to refreshAccessToken, no request to the token endpoint and no update of
\* the users table.
C1_CacheHitReturnsCached ==
    \A c \in TokCalls :
        LET k == tcall[c] IN
        (k.pc = "done" /\ SnapConnected(k) /\ SnapFresh(k))
            => /\ k.result = Ok(k.snap.access)
               /\ k.nRefresh = 0 /\ k.nFetch = 0 /\ k.nWrite = 0

C1_Witness ==
    \E c \in TokCalls :
        LET k == tcall[c] IN
        /\ k.pc = "done" /\ SnapConnected(k) /\ SnapFresh(k)
        /\ k.result = Ok("a0") /\ users[k.user].access = "a0"

\* the row the call read has no expiry or one not strictly after the read
SnapExpired(k) == k.snap.expiry = NullTime \/ k.snap.expiry <= k.readAt

C2_Done ==
    \A c \in TokCalls :
        LET k == tcall[c] IN
        (k.pc = "done" /\ SnapConnected(k) /\ SnapExpired(k))
            => /\ k.nRefresh = 1
               /\ k.result.ok =>
                     /\ k.outcome = "ok" /\ k.nFetch = 1 /\ k.nWrite = 1
                     /\ k.result.val = k.access
                     /\ k.expiry = k.gotAt + k.expiresIn * 1000

C2_PersistStep ==
    \A c \in TokCalls :
        (tcall[c].pc = "update" /\ tcall'[c].pc = "done" /\ tcall'[c].result.ok)
            => /\ users'[tcall[c].user].access = tcall'[c].result.val
               /\ users'[tcall[c].user].expiry
                      = tcall[c].gotAt + tcall[c].expiresIn * 1000
               /\ users'[tcall[c].user].refresh = users[tcall[c].user].refresh

\* C2: a call that read a connected user's row whose expiry is absent or not
\* strictly after now (equal counts as expired) calls refreshAccessToken
\* exactly once; when it returns a token it has made one request to the token
\* endpoint and one update, the update stored the returned access token with
\* expiry = (time the response arrived) + expires_in * 1000 ms, and the
\* token returned is the one stored.
C2_ExpiredRefreshesOnce == []C2_Done /\ [][C2_PersistStep]_vars

C2_Witness ==
    \E c \in TokCalls :
        LET k == tcall[c] IN
        /\ k.pc = "done" /\ SnapConnected(k)
        /\ k.snap.expiry /= NullTime /\ k.snap.expiry = k.readAt
        /\ k.result.ok /\ k.nWrite = 1
        /\ users[k.user].access = k.result.val

\* C3: a call that found no user row, or a row without refresh token (NULL,
\* or the "" stored when the OAuth response carried none), fails with the
\* NotConnected error, having made no refresh call and no update.
C3_NotConnectedFails ==
    \A c \in TokCalls :
        LET k == tcall[c] IN
        (k.pc = "done" /\ k.looked
            /\ (~k.snap.present \/ k.snap.refresh = Null \/ k.snap.refresh = ""))
            => /\ k.result = Err(ErrNotConnected)
               /\ k.nRefresh = 0 /\ k.nFetch = 0 /\ k.nWrite = 0

C3_Witness ==
    /\ \E c \in TokCalls :
        LET k == tcall[c] IN
        /\ k.pc = "done" /\ k.looked /\ k.snap.present /\ k.snap.refresh = Null
        /\ k.result = Err(ErrNotConnected)

C4_Done ==
    \A c \in TokCalls :
        LET k == tcall[c] IN
        (k.pc = "done" /\ k.outcome \in {"http_error", "no_config"})
            => /\ ~k.result.ok
               /\ k.result.val = (IF k.outcome = "no_config" THEN ErrNoConfig ELSE ErrRefresh)
               /\ k.nRefresh = 1 /\ k.nWrite = 0
               /\ k.nFetch = (IF k.outcome = "no_config" THEN 0 ELSE 1)

C4_FailStep ==
    \A c \in TokCalls :
        (tcall[c].pc = "refresh" /\ tcall'[c].outcome \in {"http_error", "no_config"})
            => /\ users' = users
               /\ tcall'[c].pc = "done"

\* C4: when the refresh fails (non-success response, or OAuth client
\* configuration missing) the call ends with that error after exactly one
\* call of refreshAccessToken, and the users table is left as it was.
C4_RefreshFailurePropagates == []C4_Done /\ [][C4_FailStep]_vars

C4_Witness ==
    \E c \in TokCalls :
        LET k == tcall[c] IN
        /\ k.pc = "done" /\ k.outcome = "http_error"
        /\ k.result = Err(ErrRefresh) /\ k.nRefresh = 1
        /\ users[k.user] = k.snap

----------------------------------------------------------------------------
(* Claims about SchedulerService, checked under SpecSched *)

IdsOf(doms) == [i \in 1..Len(doms) |-> doms[i].id]

\* C5: runDailyUpdate never throws, and once it has loaded the N tracked
\* domains it attempts each of them exactly once, in the order loaded,
\* whatever number of them fail (fetch failures, storage unavailable, a
\* rejected insert); while it runs, the domains it has called the update for
\* are the first idx of that order.
C5_EveryDomainAttempted ==
    \A r \in RunIds :
        LET run == runs[r] IN
        /\ ~run.threw
        /\ run.pc = "loop" =>
              /\ run.idx <= Len(run.doms)
              /\ run.attempted = SubSeq(IdsOf(run.doms), 1, run.idx)
              /\ run.upd.stage \in {"fetch", "getDb", "mobile", "desktop"}
        /\ (run.pc = "done" /\ run.loaded) => run.attempted = IdsOf(run.doms)

\* two domains loaded, the first one's update wrote nothing, the second
\* one's wrote its rows
C5_Witness ==
    \E r \in RunIds :
        LET run == runs[r] IN
        /\ run.pc = "done" /\ run.loaded /\ Len(run.doms) = 2
        /\ run.attempted = <<1, 2>>
        /\ \A x \in BagToSet(pageSpeedHistory) : x.domainId = 2
        /\ BagCardinality(pageSpeedHistory) = 2

C6_StartStep ==
    (nStart' /= nStart /\ isRunning)
        => UNCHANGED <<isRunning, intervalId, intervals, timeouts, timerSeq, runs>>

\* C6: at most one recurring timer is registered in every reachable state,
\* the handle held is that timer, and start() called while the scheduler is
\* running changes neither the flag, the handle nor any timer.
C6_StartIdempotent ==
    /\ [](Cardinality(intervals) <= 1 /\ (intervals /= {} => intervals = {intervalId}))
    /\ [][C6_StartStep]_vars

\* start() has been called twice in succession
C6_Witness ==
    nStart = 2 /\ isRunning /\ timerSeq = 1 /\ timeouts = 1 /\ intervals = {1}

\* C7: no invocation of runDailyUpdate by a timer begins while the scheduler
\* is stopped (between a stop() and the next start()).
C7_NoFireWhileStopped ==
    [][(\E r \in RunIds : /\ runs[r].pc = "idle" /\ runs'[r].pc /= "idle"
                          /\ runs'[r].by \in {"timeout", "interval"}) => isRunning]_vars

C8_StopStep ==
    (isRunning /\ ~isRunning')
        => \A r \in RunIds :
              /\ runs'[r].pc = runs[r].pc
              /\ runs'[r].idx = runs[r].idx
              /\ runs'[r].attempted = runs[r].attempted
              /\ runs'[r].upd = runs[r].upd

\* C8: stop() leaves a run in progress where it is, and a run that stop()
\* found in progress before domain number stopIdx still attempts that domain
\* and every later one.
C8_StopDoesNotInterrupt ==
    /\ [](\A r \in RunIds :
            LET run == runs[r] IN
            run.stopIdx > 0 =>
                /\ run.pc \in {"getDb", "select", "loop", "done"}
                /\ run.pc = "loop" => run.idx >= run.stopIdx
                /\ run.pc = "done" =>
                      \A i \in run.stopIdx..Len(run.doms) :
                          /\ i <= Len(run.attempted)
                          /\ run.attempted[i] = run.doms[i].id)
    /\ [][C8_StopStep]_vars

\* stop() came before the second domain, the scheduler is still stopped, and
\* the rows of the second domain are in the table
C8_Witness ==
    \E r \in RunIds :
        LET run == runs[r] IN
        /\ run.pc = "done" /\ run.stopIdx = 2 /\ Len(run.doms) = 2
        /\ ~isRunning /\ nStart = 1
        /\ \E x \in BagToSet(pageSpeedHistory) : x.domainId = 2

----------------------------------------------------------------------------
(* Claims about the two sync flows, checked under SpecSync *)

NoHistoryRows ==
    /\ pageSpeedHistory = EmptyBag
    /\ domainHistory = EmptyBag
    /\ keywordHistory = EmptyBag

\* what failed before the loop of syncSearchConsoleData, as the message of
\* the error thrown ("" when nothing failed)
GsEarlyError(g) ==
    IF g.db = "unavailable" THEN "Database not available"
    ELSE IF g.tok.pc = "done" /\ ~g.tok.result.ok THEN g.tok.result.val
    ELSE IF g.list = "error" THEN "query failed"
    ELSE ""

PsEarlyError(q) ==
    IF q.db = "unavailable" THEN "Database not available"
    ELSE IF q.list = "error" THEN "query failed"
    ELSE ""

\* C9: neither sync flow ever throws; a call that failed before its loop
\* (storage unavailable, getValidAccessToken threw, the select of the domains
\* rejected) has returned success = false with String(error), every counter
\* 0, and has called no measurement API and written no history row.
C9_EarlyFailureIsAResult ==
    /\ gsync.result.kind \in {"pending", "returned"}
    /\ psync.result.kind \in {"pending", "returned"}
    /\ gsync.pc = "done" => gsync.result.kind = "returned"
    /\ psync.pc = "done" => psync.result.kind = "returned"
    /\ (gsync.pc /= "idle" /\ GsEarlyError(gsync) /= "") =>
          /\ gsync.pc = "done"
          /\ gsync.result =
                [kind |-> "returned", success |-> FALSE, domainsUpdated |-> 0,
                 keywordsUpdated |-> 0, error |-> "Error: " \o GsEarlyError(gsync)]
          /\ gsync.nApi = 0 /\ gsync.nRows = 0 /\ NoHistoryRows
    /\ (psync.pc /= "idle" /\ PsEarlyError(psync) /= "") =>
          /\ psync.pc = "done"
          /\ psync.result =
                [kind |-> "returned", success |-> FALSE, urlsAnalyzed |-> 0,
                 error |-> "Error: " \o PsEarlyError(psync)]
          /\ psync.nApi = 0 /\ psync.nRows = 0 /\ NoHistoryRows

\* the refresh of an expired token failed inside syncSearchConsoleData
C9_Witness ==
    /\ gsync.pc = "done" /\ gsync.tok.outcome = "http_error"
    /\ gsync.result.success = FALSE
    /\ gsync.result.error = "Error: Failed to refresh token"

\* no tracked domain of user u has a configured external property
NoConfiguredDomain(u) ==
    \A i \in 1..Len(trackedDomains) :
        trackedDomains[i].userId = u => trackedDomains[i].property \in {Null, ""}

\* storage failed somewhere in the call
GsStorageFailed(g) ==
    \/ g.db = "unavailable"
    \/ ~g.tok.looked
    \/ (g.tok.pc = "done" /\ ~g.tok.result.ok /\ g.tok.result.val = "query failed")
    \/ g.list = "error"

\* C10 as stated: with storage available, a user without configured domain
\* gets {success: true, 0, 0} and no network call is made, whatever the
\* Credential holds.
C10_NoDomainNoNetwork ==
    (gsync.pc = "done" /\ NoConfiguredDomain(gsync.user) /\ ~GsStorageFailed(gsync))
        => /\ gsync.result =
                 [kind |-> "returned", success |-> TRUE, domainsUpdated |-> 0,
                  keywordsUpdated |-> 0]
           /\ gsync.nApi = 0 /\ gsync.tok.nFetch = 0

\* C10 amended: for a user without configured domain the call never calls
\* the analytics API and writes no row; the token is resolved first, so it
\* returns {success: true, 0, 0} exactly when the token resolves and the
\* domains are listed, with no network call when the cached token is valid
\* and one request to the token endpoint otherwise, and success = false
\* when getValidAccessToken fails.
C10_NoDomainNoApiCall ==
    (gsync.pc = "done" /\ NoConfiguredDomain(gsync.user))
        => LET tok == gsync.tok IN
           /\ gsync.nApi = 0 /\ gsync.nRows = 0 /\ NoHistoryRows
           /\ tok.nFetch <= 1
           /\ tok.nFetch = 1 => (SnapConnected(tok) /\ ~SnapFresh(tok))
           /\ (SnapConnected(tok) /\ SnapFresh(tok)) => tok.nFetch = 0
           /\ (tok.result.ok /\ gsync.list = "ok") =>
                 gsync.result =
                    [kind |-> "returned", success |-> TRUE, domainsUpdated |-> 0,
                     keywordsUpdated |-> 0]
           /\ gsync.result.success <=> (tok.result.ok /\ gsync.list = "ok")

\* the user has a domain, without property; the token was refreshed
C10_Witness ==
    /\ gsync.pc = "done" /\ NoConfiguredDomain(gsync.user)
    /\ Len(gsync.doms) >= 1
    /\ gsync.tok.nFetch = 1 /\ gsync.result.success

----------------------------------------------------------------------------
(* Claims about repeated syncs, checked under SpecRepeat *)

\* number of rows of a table (a bag) that pass a test
CountWhere(tbl, Test(_)) ==
    BagCardinality([x \in {y \in BagToSet(tbl) : Test(y)} |-> CopiesIn(x, tbl)])

DaysSeen ==
    {DayOf(x.date) : x \in BagToSet(domainHistory) \cup BagToSet(keywordHistory)}
    \cup {e[2] : e \in BagToSet(gsync.dhLog)} \cup {e[3] : e \in BagToSet(gsync.khLog)}

\* ids of the tracked keywords of (domain d, keyword k)
KeywordIds(d, k) ==
    {trackedKeywords[i].id : i \in KeywordMatches(trackedKeywords, d, k)}

\* C11: history writes are blind appends. Over any number of syncs, the
\* domain_history rows of a (domain, day) are as many as the syncs that stored
\* that domain's performance that day (two after two successful syncs), the
\* keyword_history rows of a (keyword, day) as many as the feed rows stored for
\* it, while every (domain, keyword) stored has exactly one tracked keyword:
\* the second sync adds history rows and no tracked keyword.
C11_HistoryIsBlindAppend ==
    \A day \in DaysSeen, d \in 1..MaxDomains :
        /\ CountWhere(domainHistory,
                      LAMBDA x : x.domainId = d /\ DayOf(x.date) = day)
              = CopiesIn(<<d, day>>, gsync.dhLog)
        /\ \A k \in Keywords :
              /\ CountWhere(keywordHistory,
                            LAMBDA x : x.keywordId \in KeywordIds(d, k)
                                       /\ DayOf(x.date) = day)
                    = CopiesIn(<<d, k, day>>, gsync.khLog)
              /\ Cardinality(KeywordMatches(trackedKeywords, d, k)) <= 1
              /\ CopiesIn(<<d, k, day>>, gsync.khLog) > 0
                    => Cardinality(KeywordMatches(trackedKeywords, d, k)) = 1

\* the second of two successful syncs of one domain with the feed <<k1>> has
\* returned: two rows in each history table, one tracked keyword
C11_Witness ==
    /\ gsync.pc = "done" /\ gsync.round = 2 /\ gsync.result.success
    /\ gsync.domainsUpdated = 1 /\ gsync.keywordsUpdated = 1
    /\ CopiesIn(<<1, DayOf(now - DayMs)>>, gsync.dhLog) = 2
    /\ BagCardinality(domainHistory) = 2
    /\ BagCardinality(keywordHistory) = 2
    /\ \A x \in BagToSet(keywordHistory) : x.keywordId = 1
    /\ Len(trackedKeywords) = 1

----------------------------------------------------------------------------
(* Claims about calculateAIReadabilityScore, checked under SpecScore *)

\* C12: for category scores that are integers in [0,100] and non-negative
\* lcp, cls and fid, every output of calculateAIReadabilityScore (overall,
\* semanticHTML, schemaOrg, contentClarity, technicalSEO) is an integer in
\* [0,100].
C12_OutputsInRange ==
    score.pc = "returned" =>
        /\ score.metrics \in [performanceScore : 0..100, accessibilityScore : 0..100,
                               bestPracticesScore : 0..100, seoScore : 0..100,
                               lcp : Nat, cls : Nat, fid : Nat]
        /\ score.result \in [overall : 0..100, semanticHTML : 0..100,
                              schemaOrg : 0..100, contentClarity : 0..100,
                              technicalSEO : 0..100]

\* all four scores 100 and the worst timings: the result is 100, 100, 100 and
\* technicalSEO 50, overall 90
C12_Witness ==
    /\ score.pc = "returned"
    /\ score.metrics.performanceScore = 100 /\ score.metrics.accessibilityScore = 100
    /\ score.metrics.bestPracticesScore = 100 /\ score.metrics.seoScore = 100
    /\ score.metrics.lcp = 4001 /\ score.metrics.cls = 251 /\ score.metrics.fid = 301
    /\ score.result = [overall |-> 90, semanticHTML |-> 100, schemaOrg |-> 100,
                       contentClarity |-> 100, technicalSEO |-> 50]

\* the bucket values the claim gives at and next to each threshold
LcpBucket == (0 :> 100) @@ (2500 :> 100) @@ (2501 :> 75) @@ (4000 :> 75) @@ (4001 :> 50)
ClsBucket == (0 :> 100) @@ (100 :> 100) @@ (101 :> 75) @@ (250 :> 75) @@ (251 :> 50)
FidBucket == (0 :> 100) @@ (100 :> 100) @@ (101 :> 75) @@ (300 :> 75) @@ (301 :> 50)

\* C13: technicalSEO is the rounded average of the three bucket values, the
\* thresholds inclusive on the better bucket: LCP 2500 -> 100, 2501 -> 75,
\* 4000 -> 75, 4001 -> 50; CLS 100 -> 100, 101 -> 75, 250 -> 75, 251 -> 50;
\* FID 100 -> 100, 101 -> 75, 300 -> 75, 301 -> 50.
C13_TechnicalSeoBuckets ==
    score.pc = "returned" =>
        LET sum == LcpBucket[score.metrics.lcp] + ClsBucket[score.metrics.cls]
                   + FidBucket[score.metrics.fid]
        IN  3 * score.result.technicalSEO - sum \in {-1, 0, 1}

\* LCP just over its first threshold, CLS and FID on theirs: (75+100+100)/3
\* rounds to 92
C13_Witness ==
    /\ score.pc = "returned"
    /\ score.metrics.lcp = 2501 /\ score.metrics.cls = 100 /\ score.metrics.fid = 100
    /\ score.result.technicalSEO = 92

----------------------------------------------------------------------------
(* Claims about the persistence of tokens, checked under SpecConnect *)

\* the step is a successful exchangeCode call
ExchangeStep == xchg.pc = "update" /\ xchg'.pc = "done" /\ xchg'.result.success

\* the step is the update of call c's refresh having resolved
RefreshPersistStep(c) ==
    tcall[c].pc = "update" /\ tcall'[c].pc = "done" /\ tcall'[c].result.ok

\* the row saveTokens leaves: all three columns set
SavedRow(access, refresh, t, expiresIn) ==
    [present |-> TRUE, access |-> access, refresh |-> refresh,
     expiry |-> t + expiresIn * 1000]

\* C14 as stated: the code exchange and the refresh of getValidAccessToken
\* both end by overwriting access token, refresh token and expiry with the
\* values of that call (for a refresh: the refresh token of the response, or
\* the one the call used when the response carries none).
C14_SaveTokensOnBothPaths ==
    [][/\ ExchangeStep =>
             users'[xchg'.user] =
                 SavedRow(xchg'.resp.access_token,
                          IF xchg'.resp.refresh_token = Null THEN ""
                          ELSE xchg'.resp.refresh_token,
                          xchg.at, xchg'.resp.expires_in)
       /\ \A c \in TokCalls :
             RefreshPersistStep(c) =>
                 users'[tcall[c].user] =
                     SavedRow(tcall[c].access,
                              IF tcall[c].gotRefresh = Null THEN tcall[c].snap.refresh
                              ELSE tcall[c].gotRefresh,
                              tcall[c].gotAt, tcall[c].expiresIn)]_vars

\* C14 amended: saveGoogleTokens is the persistence step of the code exchange
\* only, where it overwrites access token, refresh token ("" when the
\* response carries none) and expiry = now + expires_in s of the caller's row
\* and touches no other row; the refresh of getValidAccessToken does its own
\* update, which overwrites access token and expiry and leaves the stored
\* refresh token as it is, whatever the response carried.
C14_SaveTokensOnExchangeOnly ==
    [][/\ ExchangeStep =>
             /\ users'[xchg'.user] =
                    SavedRow(xchg'.resp.access_token,
                             IF xchg'.resp.refresh_token = Null THEN ""
                             ELSE xchg'.resp.refresh_token,
                             xchg.at, xchg'.resp.expires_in)
             /\ \A u \in UserIds \ {xchg'.user} : users'[u] = users[u]
       /\ (xchg' /= xchg /\ ~ExchangeStep) => users' = users
       /\ \A c \in TokCalls :
             RefreshPersistStep(c) =>
                 /\ users'[tcall[c].user].access = tcall[c].access
                 /\ users'[tcall[c].user].expiry
                        = tcall[c].gotAt + tcall[c].expiresIn * 1000
                 /\ users'[tcall[c].user].refresh = users[tcall[c].user].refresh]_vars

\* an exchange whose response carried no refresh token stored "", and a
\* refresh in flight since before it, whose response carried "r2", then stored
\* its access token and left that "" in place
C14_Witness ==
    \E c \in TokCalls :
        LET k == tcall[c] IN
        /\ xchg.n = 1 /\ xchg.result.success /\ xchg.user = k.user
        /\ xchg.resp.refresh_token = Null
        /\ k.pc = "done" /\ k.result.ok /\ k.nWrite = 1 /\ k.gotRefresh = "r2"
        /\ k.access /= xchg.resp.access_token
        /\ users[k.user].access = k.access
        /\ users[k.user].refresh = ""

----------------------------------------------------------------------------
(* Claims about getStatus, checked under SpecStatus *)

\* C15 as stated: in every scheduler state getStatus returns the running flag
\* and a next run of now + 24 hours.
C15_NextRunAlways ==
    status.called =>
        /\ status.result.isRunning = status.sawRunning
        /\ status.result.nextRun = status.at + 24 * 60 * 60 * 1000

\* a getStatus step leaves the clock, the tables and the scheduler alone
C15_ReadOnlyStep ==
    status' /= status =>
        UNCHANGED <<now, tokenVars, storeVars, syncVars, schedVars, score, xchg, csv,
                    ups, batch, manual, router>>

C15_Returned ==
    status.called =>
        /\ status.result.isRunning = status.sawRunning
        /\ status.result.nextRun =
              IF status.sawInterval /= 0 THEN status.at + 24 * 60 * 60 * 1000
              ELSE NullTime
        /\ (status.sawInterval /= 0) <=> status.sawRunning

\* C15 amended: getStatus returns the running flag and changes no scheduler
\* state; the next run is now + 24 hours only while the recurring timer is
\* registered, which is exactly while the scheduler runs, and null when the
\* scheduler was never started or has been stopped.
C15_NextRunOnlyWhileRunning == []C15_Returned /\ [][C15_ReadOnlyStep]_vars

\* getStatus answered a stopped scheduler, after the clock moved, with null,
\* while a warm-up timer of the stopped scheduler is still pending
C15_Witness ==
    /\ status.called /\ status.at > 0 /\ status.at = now
    /\ nStart > 0 /\ ~isRunning /\ timeouts > 0
    /\ ~status.result.isRunning /\ status.result.nextRun = NullTime

----------------------------------------------------------------------------
(* Claims about the CSV exports, checked under SpecCsv *)

\* String.prototype.split on one character
RECURSIVE Split(_, _)
Split(str, ch) ==
    IF \A i \in 1..Len(str) : str[i] /= ch THEN <<str>>
    ELSE LET i == CHOOSE j \in 1..Len(str) :
                     str[j] = ch /\ \A k \in 1..(j - 1) : str[k] /= ch
         IN  <<SubSeq(str, 1, i - 1)>> \o Split(SubSeq(str, i + 1, Len(str)), ch)

FieldCount(line) == Len(Split(line, ","))

\* lines is a header followed by n lines of as many fields as the header
IsTable(lines, n) ==
    /\ Len(lines) = 1 + n
    /\ \A i \in 1..Len(lines) : FieldCount(lines[i]) = FieldCount(lines[1])

\* C16: each export generates valid CSV for every input: the header line
\* followed by exactly one line per item, every line with as many
\* comma-separated fields as its header, also when a text field holds a comma
\* or a line break (for domainToCSV: each of its two tables, after its title).
C16_ExportsAreValidCsv ==
    csv.pc = "returned" =>
        LET lines == Split(csv.out, "\n") IN
        CASE csv.op = "keywords" -> IsTable(lines, Len(csv.keywords))
          [] csv.op = "rankings" -> IsTable(lines, Len(csv.rankings))
          [] csv.op = "domain" ->
                /\ Len(lines) = 14 + Len(csv.domain.topBacklinks)
                /\ IsTable(SubSeq(lines, 2, 11), 9)
                /\ IsTable(SubSeq(lines, 14, Len(lines)), Len(csv.domain.topBacklinks))

----------------------------------------------------------------------------
(* Claims about overlapping calls of getValidAccessToken, checked under SpecRace *)

\* the row holds what call k's update wrote
WrittenBy(row, k) ==
    /\ k.nWrite = 1
    /\ row.access = k.access
    /\ row.expiry = k.gotAt + k.expiresIn * 1000

C17_Rows ==
    /\ \A u \in UserIds :
          \/ users[u] = ExpiredRow
          \/ \E c \in RaceCalls :
                tcall[c].user = u /\ WrittenBy(users[u], tcall[c])
    /\ \A c \in RaceCalls :
          LET k == tcall[c] IN
          /\ k.nRefresh <= 1
          /\ (k.pc = "done" /\ k.nRefresh = 1) =>
                k.result = Ok(k.access) /\ k.nWrite = 1

C17_WriteStep ==
    \A u \in UserIds :
        users'[u] /= users[u] =>
            \E c \in RaceCalls :
                /\ tcall[c].pc = "update" /\ tcall'[c].pc = "done"
                /\ tcall[c].user = u
                /\ users'[u] = [users[u] EXCEPT
                                  !.access = tcall[c].access,
                                  !.expiry = tcall[c].gotAt + tcall[c].expiresIn * 1000]

\* C17: calls of getValidAccessToken for one user that overlap each refresh on
\* their own; the row then holds access token and expiry of the call whose
\* update ran last, both of the same call, and each call that refreshed
\* returns the token of its own refresh.
C17_LastWriteWins == []C17_Rows /\ [][C17_WriteStep]_vars

\* two calls for one user both saw the expired token, both refreshed, got
\* different tokens with different lifetimes, both wrote; the row holds the
\* values of one of them
C17_Witness ==
    \E c, d \in RaceCalls :
        LET k == tcall[c]
            q == tcall[d]
        IN  /\ c /= d /\ k.user = q.user /\ k.user /= 0
            /\ k.pc = "done" /\ q.pc = "done"
            /\ k.snap = ExpiredRow /\ q.snap = ExpiredRow
            /\ k.nRefresh = 1 /\ q.nRefresh = 1 /\ k.nWrite = 1 /\ q.nWrite = 1
            /\ k.access /= q.access /\ k.expiry > q.expiry
            /\ k.result = Ok(k.access) /\ q.result = Ok(q.access)
            /\ users[k.user].access = q.access
            /\ users[k.user].expiry = q.expiry

----------------------------------------------------------------------------
(* Claims about the keyword upsert, checked under SpecUpsert *)

\* C18: the keyword upsert enforces uniqueness of (domain, keyword text): under
\* any interleaving of syncSearchConsoleData calls, two concurrent calls and a
\* feed with a repeated keyword included, the tracked_keywords table has at
\* most one row per (domainId, keyword), and every keyword_history row written
\* refers to that row. The claim is about the sync calls alone, so it is
\* stated for the behaviours in which keywordsRouter has not been called.
C18_KeywordsUnique ==
    router.n = 0 =>
    /\ \A i, j \in 1..Len(trackedKeywords) :
          (/\ trackedKeywords[i].domainId = trackedKeywords[j].domainId
           /\ trackedKeywords[i].keyword = trackedKeywords[j].keyword) => i = j
    /\ \A p \in UpsertCalls :
          \A n \in 1..Len(ups[p].written) :
              LET w == ups[p].written[n] IN
              { trackedKeywords[i].id :
                  i \in KeywordMatches(trackedKeywords, ups[p].domainId, w[1]) }
                = {w[2]}

----------------------------------------------------------------------------
(* Claims about overlapping batches, checked under SpecOverlap *)

\* invocations of runDailyUpdate that have begun and not returned
BatchesInProgress == { r \in DOMAIN runs : runs[r].pc \in {"getDb", "select", "loop"} }

\* C19: for any sequence of start(), stop() and timer fires at most one
\* runDailyUpdate batch is in progress at any instant (so that at most one
\* domain's requests are outstanding).
C19_OneBatchAtATime == Cardinality(BatchesInProgress) <= 1

----------------------------------------------------------------------------
(* Claims about the order of calls within a batch, checked under SpecBatch *)

\* every outstanding call belongs to the domain the loop is at, and nothing is
\* outstanding when the loop is between awaits
C20_Outstanding ==
    /\ \A o \in batch.out : o[1] = batch.idx
    /\ batch.pc \in {"issue", "done"} => batch.out = {}

\* the calls of a domain are issued and settled before any call of a later one
C20_LogOrdered ==
    \A i, j \in 1..Len(batch.log) :
        i < j => batch.log[i].dom <= batch.log[j].dom

\* C20: within one batch (runDailyUpdate, syncSearchConsoleData or
\* syncPageSpeedData) domains are processed strictly one after another: the
\* first call for domain k+1 is issued only after every request and every
\* history write for domain k has completed or failed.
C20_DomainsOneAfterAnother == C20_Outstanding /\ C20_LogOrdered

\* a runDailyUpdate batch of two domains ended; for the first domain the mobile
\* fetch failed while the desktop fetch was outstanding, the desktop fetch
\* settled after it, and only then the fetches of the second domain were issued
C20_Witness ==
    /\ batch.kind = "runDailyUpdate" /\ batch.pc = "done" /\ batch.n = 2
    /\ Len(batch.log) >= 6
    /\ batch.log[1] = [ev |-> "issue", dom |-> 1, res |-> "none",
                       ops |-> {"fetchMobile", "fetchDesktop"}]
    /\ batch.log[2] = [ev |-> "settle", dom |-> 1, res |-> "fail",
                       ops |-> {"fetchMobile"}]
    /\ batch.log[3] = [ev |-> "settle", dom |-> 1, res |-> "ok",
                       ops |-> {"fetchDesktop"}]
    /\ batch.log[4] = [ev |-> "issue", dom |-> 1, res |-> "none", ops |-> {"getDb"}]
    /\ \E i \in 5..Len(batch.log) :
          batch.log[i] = [ev |-> "issue", dom |-> 2, res |-> "none",
                          ops |-> {"fetchMobile", "fetchDesktop"}]

----------------------------------------------------------------------------
(* Claims about what a scheduled cycle does, checked under SpecSched *)

\* domains some invocation of runDailyUpdate has attempted
AttemptedIds == UNION { {runs[r].attempted[i] : i \in 1..Len(runs[r].attempted)} :
                        r \in DOMAIN runs }

\* the cycles a timer of the scheduler fired that have ended
C21_Cycles ==
    { r \in RunIds : /\ runs[r].by \in {"timeout", "interval"}
                     /\ runs[r].pc = "done" /\ runs[r].loaded }

\* the domains of cycle r that have a configured property, whose owner is
\* connected, and for which the cycle wrote page-performance rows
C21_Served(r) ==
    { i \in 1..Len(runs[r].doms) :
        LET dom == runs[r].doms[i] IN
        /\ HasProperty(dom)
        /\ ~NotConnected(users[dom.userId])
        /\ \E row \in BagToSet(pageSpeedHistory) : row.domainId = dom.id }

\* C21: in every cycle fired by the scheduler each tracked domain gets the
\* whole chain: a token is resolved, both measurement APIs are called, keywords
\* are upserted, and DomainHistory and KeywordHistory rows are appended as well
\* as PageSpeedHistory rows (here: when a cycle has ended, every domain with a
\* property and a connected owner for which it wrote page-performance rows has
\* a DomainHistory row as well).
C21_CycleRunsWholeChain ==
    \A r \in C21_Cycles :
        \A i \in C21_Served(r) :
            \E row \in BagToSet(domainHistory) : row.domainId = runs[r].doms[i].id

\* what the code does: a cycle calls, for each tracked domain, the
\* page-performance API only (mobile and desktop) and appends PageSpeedHistory
\* rows of the domains it attempted; no token is resolved, no search-console
\* API called, no keyword upserted and no DomainHistory or KeywordHistory row
\* appended, and the credentials stay as they were
C21_CycleIsPageSpeedOnly ==
    /\ \A c \in DOMAIN tcall : tcall[c] = IdleCall
    /\ gsync = IdleSync /\ psync = IdlePs
    /\ domainHistory = EmptyBag /\ keywordHistory = EmptyBag
    /\ trackedKeywords = <<>>
    /\ users = [u \in UserIds |-> ConnectedRow]
    /\ \A row \in BagToSet(pageSpeedHistory) : row.domainId \in AttemptedIds

\* a cycle the warm-up timer fired over two configured domains of a connected
\* user ended with page-performance rows of both and nothing else
C21_CycleEnded ==
    \E r \in C21_Cycles :
        /\ runs[r].attempted = <<1, 2>> /\ C21_Served(r) = {1, 2}
        /\ BagCardinality(pageSpeedHistory) = 4
        /\ domainHistory = EmptyBag /\ keywordHistory = EmptyBag
        /\ \A c \in DOMAIN tcall : tcall[c] = IdleCall

----------------------------------------------------------------------------
(* Claims about runs that fail, checked under SpecRecur *)

\* some invocation of runDailyUpdate begins, advances or ends in the step
RunStep ==
    \E r \in DOMAIN runs :
        \/ runs'[r].pc /= runs[r].pc
        \/ runs'[r].idx /= runs[r].idx
        \/ runs'[r].upd /= runs[r].upd

C22_RunKeepsSchedule ==
    RunStep => UNCHANGED <<isRunning, intervalId, intervals, timerSeq>>

C22_Alive ==
    /\ \A r \in DOMAIN runs : ~runs[r].threw
    /\ isRunning => intervalId \in intervals
    /\ \A r \in DOMAIN runs :
          (isRunning /\ FreeRun(r)) => ENABLED IntervalFire(intervalId, r)

\* C22: whatever fails inside a run (storage unavailable, the listing of the
\* domains rejects, any or all domains fail), the run ends without rejecting
\* and leaves the running flag and the recurring timer handle as they were, so
\* that while the scheduler is not stopped the recurring timer is registered
\* and its next fire invokes runDailyUpdate.
C22_FailingRunKeepsSchedule == []C22_Alive /\ [][C22_RunKeepsSchedule]_vars

\* started once and not stopped, the warm-up timer still pending: a run begun
\* by the recurring timer failed to list the domains, and the recurring timer
\* then fired again and began the next run
C22_Witness ==
    /\ nStart = 1 /\ isRunning /\ timeouts = 1
    /\ runs[1].pc = "done" /\ ~runs[1].loaded /\ runs[1].by = "interval"
    /\ runs[2].pc = "loop" /\ runs[2].by = "interval"
    /\ intervalId \in intervals


\* ---------------------------------------------------------------------------
\* Claims about per-domain failures of the two sync flows, checked under
\* SpecSync (one call, tables empty at the start)

C23_Loops == { gsync, psync }

\* C23: a failure while one domain is processed never aborts the batch: a
\* call that entered its loop ends only after the last domain of the user
\* was attempted, with success = true, whichever domains failed, and the
\* history rows it wrote are still in the tables
C23_FailureDoesNotAbort ==
    /\ \A call \in C23_Loops :
        /\ call.pc = "loop" => call.idx \in 1..Len(call.doms)
        /\ (call.pc = "done" /\ call.doms /= <<>>) =>
                /\ call.idx = Len(call.doms) + 1
                /\ call.result.kind = "returned"
                /\ call.result.success
        /\ \A i \in 1..Len(call.failed) : call.failed[i] < call.idx
    /\ BagCardinality(domainHistory) + BagCardinality(keywordHistory) = gsync.nRows
    /\ BagCardinality(pageSpeedHistory) = psync.nRows

\* the first of two domains failed, the second was still processed and
\* wrote its rows, and the call returned success
C23_Witness ==
    /\ gsync.pc = "done" /\ Len(gsync.doms) = 2 /\ gsync.failed = <<1>>
    /\ gsync.result = SyncSuccess(1, 1)
    /\ BagCardinality(domainHistory) = 1
    /\ \E r \in BagToSet(domainHistory) : r.domainId = gsync.doms[2].id
    /\ BagCardinality(keywordHistory) = 1

\* the same case of syncPageSpeedData
C23_PageSpeedCase ==
    /\ psync.pc = "done" /\ Len(psync.doms) = 2 /\ psync.failed = <<1>>
    /\ psync.result = PsSuccess(1)
    /\ \E r \in BagToSet(pageSpeedHistory) : r.domainId = psync.doms[2].id


C24_IsSuccess(call) == call.result.kind = "returned" /\ call.result.success

\* C24: on every success result the counters are the numbers of history
\* rows the call appended: domainsUpdated the domain_history rows,
\* keywordsUpdated the keyword_history rows (one per processed query row),
\* urlsAnalyzed the pagespeed_history rows, also when a domain failed
\* part-way
C24_CountersAreRowCounts ==
    /\ gsync.domainsUpdated = BagCardinality(domainHistory)
    /\ gsync.keywordsUpdated = BagCardinality(keywordHistory)
    /\ psync.urlsAnalyzed = BagCardinality(pageSpeedHistory)
    /\ C24_IsSuccess(gsync) =>
            /\ gsync.result.domainsUpdated = BagCardinality(domainHistory)
            /\ gsync.result.keywordsUpdated = BagCardinality(keywordHistory)
    /\ C24_IsSuccess(psync) =>
            psync.result.urlsAnalyzed = BagCardinality(pageSpeedHistory)

\* the only domain failed after its domain_history row and one keyword row
\* were written, and the result counts both
C24_Witness ==
    /\ gsync.pc = "done" /\ Len(gsync.doms) = 1 /\ gsync.failed = <<1>>
    /\ gsync.result = SyncSuccess(1, 1)
    /\ BagCardinality(domainHistory) = 1
    /\ BagCardinality(keywordHistory) = 1

\* a repeated keyword is counted each time
C24_RepeatedKeywordCase ==
    /\ C24_IsSuccess(gsync) /\ gsync.result.keywordsUpdated = 2
    /\ Len(trackedKeywords) = 1

\* a domain of syncPageSpeedData failed and is not counted
C24_PageSpeedCase ==
    /\ C24_IsSuccess(psync) /\ psync.failed /= <<>>
    /\ psync.result.urlsAnalyzed = 1 /\ BagCardinality(pageSpeedHistory) = 1


\* ---------------------------------------------------------------------------
\* Claims about what the subsystem leaves alone in the store, checked under
\* SpecAppend

C25_Step ==
    /\ domainHistory \sqsubseteq domainHistory'
    /\ keywordHistory \sqsubseteq keywordHistory'
    /\ pageSpeedHistory \sqsubseteq pageSpeedHistory'
    /\ \A u \in UserIds : users[u].present => users'[u].present
    /\ trackedDomains' = trackedDomains

\* C25: the history tables are append-only: every step keeps every existing
\* domain_history, keyword_history and pagespeed_history row as it is, so
\* each table only grows; no step deletes a credential row, and none
\* creates, modifies or deletes a tracked domain
C25_HistoryIsAppendOnly == [][C25_Step]_vars

\* a run of the scheduler has written page-performance rows, and a call of
\* syncSearchConsoleData that followed it on the same store has refreshed the
\* token of its user, written rows to domain_history and keyword_history and
\* returned; the rows of the run are still there
C25_Witness ==
    /\ \E r \in RunIds : runs[r].pc = "done" /\ runs[r].loaded
    /\ \E row \in BagToSet(pageSpeedHistory) : row.cols = SchedulerColumns
    /\ gsync.pc = "idle" /\ gsync.round = 1
    /\ BagCardinality(domainHistory) = 1
    /\ BagCardinality(keywordHistory) = 1
    /\ \E u \in UserIds : users[u].present /\ users[u].access \in NewTokens

\* the sync of page performance and manualUpdate have both written their rows
C25_PageSpeedCase ==
    /\ manual.upd.stage = "done" /\ manual.upd.ret = "value"
    /\ psync.pc = "idle" /\ psync.round = 1
    /\ \E row \in BagToSet(pageSpeedHistory) : row.cols = AnalyzeColumns
    /\ \E row \in BagToSet(pageSpeedHistory) : row.cols = SchedulerColumns

\* exchangeCode has saved the tokens of a user over the row it found
C25_CredentialCase ==
    /\ xchg.pc = "done" /\ xchg.n = 1
    /\ \E u \in UserIds : users[u].present /\ users[u].access = "a1"


\* ---------------------------------------------------------------------------
\* Claims about the delay between the domains of syncPageSpeedData, checked
\* under SpecBatch

\* positions of the log where the page-performance request of a domain after
\* the first is issued
C26_NextRequests ==
    { j \in 1..Len(batch.log) :
        /\ batch.kind = "syncPageSpeedData"
        /\ batch.log[j].ev = "issue"
        /\ "fetchPageSpeedInsights" \in batch.log[j].ops
        /\ batch.log[j].dom > 1 }

\* the sleep of line 188 of the domain before has elapsed before position j
C26_SleptBefore(j) ==
    \E i \in 1..(j - 1) :
        /\ batch.log[i].ev = "settle" /\ batch.log[i].ops = {"sleep"}
        /\ batch.log[i].dom = batch.log[j].dom - 1

\* the analysis of the domain before position j's domain succeeded
C26_SucceededBefore(j) ==
    \E i \in 1..(j - 1) :
        /\ batch.log[i].ev = "settle"
        /\ batch.log[i].ops = {"insertPageSpeedHistory"}
        /\ batch.log[i].res = "ok"
        /\ batch.log[i].dom = batch.log[j].dom - 1

\* C26: in syncPageSpeedData, whatever the outcome of a domain's analysis,
\* the fixed delay elapses between the end of that analysis and the
\* page-performance request of the next domain
C26_DelayBetweenDomains == \A j \in C26_NextRequests : C26_SleptBefore(j)

\* what the code does: the delay elapses exactly after an analysis that
\* succeeded
C26_DelayOnlyAfterSuccess ==
    \A j \in C26_NextRequests : C26_SleptBefore(j) <=> C26_SucceededBefore(j)


\* ---------------------------------------------------------------------------
\* Claims about the content of pagespeed_history rows

\* the four category scores, the seven raw metrics and the raw payload
C27_Required ==
    {"performanceScore", "accessibilityScore", "bestPracticesScore", "seoScore"}
    \cup {"lcp", "fid", "cls", "ttfb", "fcp", "speedIndex", "tbt"}
    \cup {"rawData"}

\* the URLs analysed for a domain id: that of the tracked domain, and the one
\* pageSpeedRouter.analyze was given with this id
C27_AnalysedUrls(domainId) ==
    { UrlOf(trackedDomains[i].domain) :
        i \in { k \in 1..Len(trackedDomains) : trackedDomains[k].id = domainId } }
    \cup (IF domainId /= 0 /\ router.analyze.domainId = domainId
          THEN {router.analyze.url} ELSE {})

\* C27: every pagespeed_history row, written by analyzeAndSavePageSpeed or by
\* the per-domain update of the scheduler, carries the four category scores,
\* the seven raw metrics and the raw payload, and its url is the analysed URL
C27_RowsAreComplete ==
    \A r \in BagToSet(pageSpeedHistory) :
        /\ C27_Required \subseteq r.cols
        /\ r.url \in C27_AnalysedUrls(r.domainId)


\* ---------------------------------------------------------------------------
\* Claims about the scheduler's public operations, checked under SpecManual

\* C28: in every state reached by start(), stop(), getStatus(), timer fires
\* and manualUpdate calls the running flag is true exactly when a recurring
\* timer handle is registered (intervalId is not null)
C28_RunningIffInterval ==
    /\ isRunning <=> intervalId /= 0
    /\ intervalId /= 0 => intervalId \in intervals

\* the scheduler was started, stopped and started again, a timer fired,
\* getStatus and manualUpdate were called, and the second timer is registered
C28_Witness ==
    /\ nStart >= 2 /\ isRunning /\ intervalId = 2 /\ intervals = {2}
    /\ runs[1].pc = "done"
    /\ status.called /\ manual.upd.stage = "done"

\* the same after a stop
C28_StoppedCase ==
    /\ nStart >= 1 /\ ~isRunning /\ intervalId = 0 /\ intervals = {}
    /\ runs[1].pc = "done" /\ status.called /\ manual.upd.stage = "done"


\* rows written since the manualUpdate call was made
C29_Written == pageSpeedHistory (-) manual.base

\* rows the call wrote for domain id with the suffix of a strategy
C29_RowsOf(id, suffix) ==
    { r \in BagToSet(C29_Written) :
        /\ r.domainId = id
        /\ Len(r.url) > Len(suffix)
        /\ SubSeq(r.url, Len(r.url) - Len(suffix) + 1, Len(r.url)) = suffix }

C29_Count(id, suffix) ==
    BagCardinality([r \in C29_RowsOf(id, suffix) |-> C29_Written[r]])

C29_Expected(ok) == IF ok THEN 1 ELSE 0

\* C29: the per-domain update settles with a value or null and never throws;
\* with storage available and the inserts succeeding it has written exactly
\* one row for each strategy whose fetch succeeded and none for the other (0,
\* 1 or 2 rows); null is returned when storage is unavailable (nothing
\* written) or an insert fails; while the call is pending the table never
\* holds more than those rows
C29_FetchesFailIndependently ==
    LET u == manual.upd IN
    /\ u.ret \in {"none", "pending", "value", "null"}
    /\ u.ret = "pending" <=> u.stage \in {"fetch", "getDb", "mobile", "desktop"}
    /\ u.stage \in {"mobile", "desktop", "done"} =>
          /\ C29_Count(manual.domainId, MobileSuffix) <= C29_Expected(u.mobileOk)
          /\ C29_Count(manual.domainId, DesktopSuffix) <= C29_Expected(u.desktopOk)
    /\ u.stage = "done" =>
          /\ u.failed = "none" =>
                /\ u.ret = "value"
                /\ C29_Count(manual.domainId, MobileSuffix) = C29_Expected(u.mobileOk)
                /\ C29_Count(manual.domainId, DesktopSuffix) = C29_Expected(u.desktopOk)
                /\ BagCardinality(C29_Written)
                      = C29_Expected(u.mobileOk) + C29_Expected(u.desktopOk)
          /\ u.failed /= "none" => u.ret = "null"
          /\ u.failed = "getDb" => C29_Written = EmptyBag

\* the mobile fetch failed, the desktop fetch succeeded: one desktop row
C29_Witness ==
    /\ manual.upd.stage = "done" /\ manual.upd.failed = "none"
    /\ ~manual.upd.mobileOk /\ manual.upd.desktopOk
    /\ manual.upd.ret = "value"
    /\ BagCardinality(C29_Written) = 1
    /\ C29_Count(manual.domainId, DesktopSuffix) = 1

\* the second insert failed: null is returned and the first row stays
C29_SecondInsertFailedCase ==
    /\ manual.upd.stage = "done" /\ manual.upd.failed = "desktop"
    /\ manual.upd.mobileOk /\ manual.upd.ret = "null"
    /\ BagCardinality(C29_Written) = 1

\* the mobile row is stored while the call is still pending
C29_PendingCase ==
    /\ manual.upd.stage = "desktop" /\ manual.upd.ret = "pending"
    /\ BagCardinality(C29_Written) = 1
    /\ C29_Count(manual.domainId, MobileSuffix) = 1


\* ---------------------------------------------------------------------------
\* Claims about a repeated code exchange, checked under SpecConnect

\* the user of the exchange of this step had a refresh token stored
C30_WasConnected == ~NotConnected(users[xchg'.user])

\* C30: a connected user stays connected across a repeated code exchange:
\* after exchangeCode succeeds, also with a response that carries no
\* refresh_token, the user's row still passes the NotConnected check of
\* getValidAccessToken
C30_StaysConnected ==
    [][(ExchangeStep /\ C30_WasConnected) => ~NotConnected(users'[xchg'.user])]_vars

\* what the code does: the user is connected after a successful exchange
\* exactly when the response carried a refresh token
C30_ConnectedIffResponseHasToken ==
    [][ExchangeStep =>
          (~NotConnected(users'[xchg'.user]) <=> Truthy(xchg'.resp.refresh_token))]_vars

\* a getValidAccessToken call that read the row after such an exchange failed
\* with the NotConnected error
C30_FailedAfterExchange ==
    \E c \in TokCalls :
        LET k == tcall[c] IN
        /\ xchg.n = 1 /\ xchg.result.success /\ xchg.resp.refresh_token = Null
        /\ k.pc = "done" /\ k.looked /\ k.user = xchg.user
        /\ k.snap.refresh = "" /\ k.result = Err(ErrNotConnected)

====
